---- MODULE Spec2Model ----
(***************************************************************************)
(* redexp/textdocument: a text buffer kept in step with a line index, a   *)
(* one-entry position cache and an incrementally parsed syntax tree.      *)
(*                                                                         *)
(* Text is a sequence of bytes (Go string).  Go offsets are 0-based and   *)
(* slices half-open; Slice(s, from, to) is s[from:to].  Lines is the Go   *)
(* slice doc.Lines, so doc.Lines[i] is Lines[i + 1] here.                 *)
(***************************************************************************)
EXTENDS Integers, Sequences, FiniteSets, TLC

VARIABLES
    Text,              \* doc.Text
    TextLength,        \* doc.TextLength
    Lines,             \* doc.Lines
    Tree,              \* doc.Tree (NilTree when nil)
    Parser,            \* doc.Parser (NoParser when nil)
    HighlightQuery,    \* doc.HighlightQuery (NoQuery when nil)
    HighlightCaptures, \* doc.HighlightCaptures
    lastLineOffset,    \* doc.lastLineOffset
    closed,            \* per tree handle: number of Tree.Close calls received
    nextTree,          \* next tree handle the parser allocates
    parseCall,         \* arguments of the most recent Parser.ParseCtx call
    ret                \* the most recent call: operation, error, value

vars == <<Text, TextLength, Lines, Tree, Parser, HighlightQuery,
          HighlightCaptures, lastLineOffset, closed, nextTree, parseCall, ret>>

docVars == <<Text, TextLength, Lines, Tree, Parser, HighlightQuery,
             HighlightCaptures, lastLineOffset, closed, nextTree, parseCall>>

-----------------------------------------------------------------------------
(* Bounds of the model *)

\* Texts of the document-lifecycle specification: at most this many units.
MaxUnits == 1
\* Texts of the coordinate-conversion specification: at most this many units.
MaxConvUnits == 2
\* The parser allocates at most this many trees in one behaviour.
MaxTrees == 2
\* Codepoints and terminators of a parsed text, and nodes of its tree.
MaxNodeUnits == 2
MaxNodes == 3
\* Nodes of a tree GetNodesByRange walks, and units of its one-line texts.
MaxWalkNodes == 4
MaxWalkUnits == 3

-----------------------------------------------------------------------------
(* Bytes and strings *)

NL == 10

Min(a, b) == IF a < b THEN a ELSE b

\* Go s[from:to] on a byte sequence, 0-based, half-open.
Slice(s, from, to) == IF to <= from THEN <<>> ELSE SubSeq(s, from + 1, to)

\* Go s[from:]
SliceFrom(s, from) == Slice(s, from, Len(s))

RECURSIVE Concat(_)
Concat(ss) == IF ss = <<>> THEN <<>> ELSE Head(ss) \o Concat(Tail(ss))

RECURSIVE SeqsUpTo(_, _)
\* All sequences of at most n elements of S.
SeqsUpTo(S, n) ==
    IF n = 0 THEN {<<>>}
    ELSE LET shorter == SeqsUpTo(S, n - 1)
         IN  shorter \cup {Append(s, x) : s \in shorter, x \in S}

\* Units of the lifecycle texts: "é" (C3 A9), "\n".
DocUnits == {<<195, 169>>, <<NL>>}

\* Units of the conversion texts: "a", "\n", "é", U+FFFD (EF BF BD, valid
\* UTF-8) and a lone continuation byte (invalid UTF-8).
ConvUnits == {<<97>>, <<NL>>, <<195, 169>>, <<239, 191, 189>>, <<169>>}

DocTexts == {Concat(us) : us \in SeqsUpTo(DocUnits, MaxUnits)}
ConvTexts == {Concat(us) : us \in SeqsUpTo(ConvUnits, MaxConvUnits)}

\* Units of the parsed texts: "é" (two bytes, one character) and "\n".
NodeUnits == {<<195, 169>>, <<NL>>}
NodeTexts == {Concat(us) : us \in SeqsUpTo(NodeUnits, MaxNodeUnits)}

-----------------------------------------------------------------------------
(* UInt = uint32.  A value v < 2^31 is the integer v; a value v >= 2^31 is *)
(* the integer v - 2^32, so + and - wrap as in Go and only the order has   *)
(* to be restated.                                                         *)

\* 4294967295, the largest UInt, as its signed representative.
MaxUInt == -1
UAdd(a, b) == a + b
USub(a, b) == a - b
ULt(a, b) == IF (a >= 0) = (b >= 0) THEN a < b ELSE a >= 0
ULe(a, b) == a = b \/ ULt(a, b)
UGt(a, b) == ULt(b, a)
UGe(a, b) == ULe(b, a)

-----------------------------------------------------------------------------
(* unicode/utf8 *)

RuneError == 65533

InRange(b, lo, hi) == lo <= b /\ b <= hi

\* Accept range of the second byte for lead byte b0 (utf8.acceptRanges).
SecondLo(b0) == IF b0 = 224 THEN 160 ELSE IF b0 = 240 THEN 144 ELSE 128
SecondHi(b0) == IF b0 = 237 THEN 159 ELSE IF b0 = 244 THEN 143 ELSE 191

\* Encoded length announced by a lead byte, 0 for a byte that cannot lead.
LeadSize(b0) ==
    IF b0 < 128 THEN 1
    ELSE IF InRange(b0, 194, 223) THEN 2
    ELSE IF InRange(b0, 224, 239) THEN 3
    ELSE IF InRange(b0, 240, 244) THEN 4
    ELSE 0

\* utf8.DecodeRuneInString(s): the first rune of s and its width in bytes;
\* (RuneError, 0) for the empty string, (RuneError, 1) for an invalid encoding.
DecodeRuneInString(s) ==
    IF Len(s) = 0 THEN [char |-> RuneError, size |-> 0]
    ELSE LET b0 == s[1]
             sz == LeadSize(b0)
             bad == [char |-> RuneError, size |-> 1]
         IN  IF sz = 1 THEN [char |-> b0, size |-> 1]
             ELSE IF sz = 0 \/ Len(s) < sz THEN bad
             ELSE IF ~InRange(s[2], SecondLo(b0), SecondHi(b0)) THEN bad
             ELSE IF sz = 2
                  THEN [char |-> (b0 % 32) * 64 + (s[2] % 64), size |-> 2]
             ELSE IF ~InRange(s[3], 128, 191) THEN bad
             ELSE IF sz = 3
                  THEN [char |-> (b0 % 16) * 4096 + (s[2] % 64) * 64 + (s[3] % 64),
                        size |-> 3]
             ELSE IF ~InRange(s[4], 128, 191) THEN bad
             ELSE [char |-> (b0 % 8) * 262144 + (s[2] % 64) * 4096
                              + (s[3] % 64) * 64 + (s[4] % 64),
                   size |-> 4]

RECURSIVE Split(_)
\* strings.Split(text, "\n")
Split(text) ==
    IF \A i \in 1..Len(text) : text[i] # NL THEN <<text>>
    ELSE LET i == CHOOSE k \in 1..Len(text) :
                      text[k] = NL /\ \A j \in 1..(k - 1) : text[j] # NL
         IN  <<Slice(text, 0, i - 1)>> \o Split(SliceFrom(text, i))

-----------------------------------------------------------------------------
(* Line index *)

NoOffset == [line |-> 0, offset |-> 0, column |-> 0]

RECURSIVE LineOffsets(_, _)
\* The loop of UpdateLines: one entry per line, offset += 1 + len(line).
LineOffsets(lines, offset) ==
    IF lines = <<>> THEN <<>>
    ELSE <<offset>> \o LineOffsets(Tail(lines), UAdd(offset, 1 + Len(Head(lines))))

\* UpdateLines without the entry of the empty line after a trailing terminator.
UpdateLinesNoFinalEmpty(text) ==
    LET lines == Split(text)
        kept == IF Len(lines) > 1 /\ lines[Len(lines)] = <<>>
                THEN SubSeq(lines, 1, Len(lines) - 1)
                ELSE lines
    IN  [Lines |-> LineOffsets(kept, 0),
         TextLength |-> Len(text),
         lastLineOffset |-> NoOffset]

\* doc.UpdateLines(): the fields it assigns, from doc.Text.
UpdateLines(text) ==
    [Lines |-> LineOffsets(Split(text), 0),
     TextLength |-> Len(text),
     lastLineOffset |-> NoOffset]

\* The document fields the conversions read.
Doc == [Text |-> Text, TextLength |-> TextLength, Lines |-> Lines,
        lastLineOffset |-> lastLineOffset]

NewTextDocument(text) ==
    LET u == UpdateLines(text)
    IN  [Text |-> text, TextLength |-> u.TextLength, Lines |-> u.Lines,
         lastLineOffset |-> u.lastLineOffset]

-----------------------------------------------------------------------------
(* Coordinate conversions.  Every conversion returns [err, val]; err = ""  *)
(* is Go's nil error.  LineByteIndexToPosition also returns the position   *)
(* cache it leaves behind.                                                 *)

NoErr == ""
ErrLine == "line out of range"
ErrCharacter == "character out of range"
ErrRune == "rune error"
ErrByteIndex == "byte index out of range"
ErrLineByteIndex == "byte index out of range for line"

RECURSIVE PositionWalk(_, _, _, _, _)
\* The for loop of PositionToByteIndex.
PositionWalk(doc, pos, offset, character, max) ==
    IF ~ULt(character, pos.character) THEN [err |-> NoErr, val |-> offset]
    ELSE LET d == DecodeRuneInString(SliceFrom(doc.Text, offset))
         IN  IF d.char = RuneError THEN [err |-> ErrRune, val |-> 0]
             ELSE LET o == UAdd(offset, d.size)
                      c == character + 1
                  IN  IF UGt(o, max) \/ (o = max /\ ULt(c, pos.character))
                      THEN [err |-> ErrCharacter, val |-> 0]
                      ELSE PositionWalk(doc, pos, o, c, max)

PositionToByteIndex(doc, pos) ==
    LET linesCount == Len(doc.Lines)
    IN  IF UGe(pos.line, linesCount) THEN [err |-> ErrLine, val |-> 0]
        ELSE LET offset == doc.Lines[pos.line + 1]
                 max == IF pos.line + 1 < linesCount
                        THEN USub(doc.Lines[pos.line + 2], 1)
                        ELSE doc.TextLength
             IN  PositionWalk(doc, pos, offset, 0, max)

RECURSIVE LineScan(_, _, _)
\* The descending loop of ByteIndexLine.
LineScan(doc, index, line) ==
    IF line = 0 \/ ULe(doc.Lines[line + 1], index) THEN line
    ELSE LineScan(doc, index, line - 1)

\* ByteIndexLine that gives an offset at a line start to the line before.
ByteIndexLineStrict(doc, index) ==
    IF UGt(index, doc.TextLength) THEN [err |-> ErrByteIndex, val |-> 0]
    ELSE LET line == LineScan(doc, index, Len(doc.Lines) - 1)
         IN  [err |-> NoErr,
              val |-> IF line > 0 /\ doc.Lines[line + 1] = index THEN line - 1 ELSE line]

ByteIndexLine(doc, index) ==
    IF UGt(index, doc.TextLength) THEN [err |-> ErrByteIndex, val |-> 0]
    ELSE [err |-> NoErr, val |-> LineScan(doc, index, Len(doc.Lines) - 1)]

LineMinMaxByteIndex(doc, line) ==
    LET linesCount == Len(doc.Lines)
    IN  IF UGe(line, linesCount) THEN [err |-> ErrLine, min |-> 0, max |-> 0]
        ELSE [err |-> NoErr,
              min |-> doc.Lines[line + 1],
              max |-> IF line + 1 < linesCount
                      THEN USub(doc.Lines[line + 2], 1)
                      ELSE doc.TextLength]

Position(line, character) == [line |-> line, character |-> character]
Point(row, column) == [row |-> row, column |-> column]
NoPosition == Position(0, 0)
NoPoint == Point(0, 0)

RECURSIVE ColumnWalk(_, _, _, _, _, _)
\* The for loop of LineByteIndexToPosition and the cache update after it.
ColumnWalk(doc, line, index, offset, column, max) ==
    IF UGe(offset, index)
    THEN [err |-> NoErr, val |-> Position(line, column),
          last |-> [line |-> line, offset |-> offset, column |-> column]]
    ELSE LET d == DecodeRuneInString(SliceFrom(doc.Text, offset))
         IN  IF d.char = RuneError
             THEN [err |-> ErrRune, val |-> NoPosition, last |-> doc.lastLineOffset]
             ELSE LET o == UAdd(offset, d.size)
                  IN  IF UGt(o, max)
                      THEN [err |-> ErrLineByteIndex, val |-> NoPosition,
                            last |-> doc.lastLineOffset]
                      ELSE ColumnWalk(doc, line, index, o, column + 1, max)

\* WalkStart that takes the cached entry whatever line it belongs to.
WalkStartAnyLine(doc, line, index, offset) ==
    LET last == doc.lastLineOffset
    IN  IF ULe(last.offset, index)
        THEN [offset |-> last.offset, column |-> last.column]
        ELSE [offset |-> offset, column |-> 0]

\* WalkStart that takes the cached entry of the line wherever it lies.
WalkStartAnyOffset(doc, line, index, offset) ==
    LET last == doc.lastLineOffset
    IN  IF last.line = line
        THEN [offset |-> last.offset, column |-> last.column]
        ELSE [offset |-> offset, column |-> 0]

\* Where the walk of LineByteIndexToPosition starts: the cached entry when it
\* names the same line and does not lie past the target, else the line start.
WalkStart(doc, line, index, offset) ==
    LET last == doc.lastLineOffset
    IN  IF last.line = line /\ ULe(last.offset, index)
        THEN [offset |-> last.offset, column |-> last.column]
        ELSE [offset |-> offset, column |-> 0]

\* LineByteIndexToPosition that moves the cache to the line before it walks.
LineByteIndexToPositionEager(doc, line, index) ==
    LET mm == LineMinMaxByteIndex(doc, line)
    IN  IF mm.err # NoErr
        THEN [err |-> mm.err, val |-> NoPosition, last |-> doc.lastLineOffset]
        ELSE LET target == UAdd(index, mm.min)
                 from == WalkStart(doc, line, target, mm.min)
                 r == ColumnWalk(doc, line, target, from.offset, from.column, mm.max)
             IN  IF r.err = NoErr THEN r
                 ELSE [r EXCEPT !.last = [line |-> line, offset |-> mm.min,
                                          column |-> 0]]

LineByteIndexToPosition(doc, line, index) ==
    LET mm == LineMinMaxByteIndex(doc, line)
    IN  IF mm.err # NoErr
        THEN [err |-> mm.err, val |-> NoPosition, last |-> doc.lastLineOffset]
        ELSE LET target == UAdd(index, mm.min)
                 from == WalkStart(doc, line, target, mm.min)
             IN  ColumnWalk(doc, line, target, from.offset, from.column, mm.max)

\* ByteIndexToPosition that hands the document offset on as a line offset.
ByteIndexToPositionAbsolute(doc, index) ==
    LET l == ByteIndexLine(doc, index)
    IN  IF l.err # NoErr
        THEN [err |-> l.err, val |-> NoPosition, last |-> doc.lastLineOffset]
        ELSE LineByteIndexToPosition(doc, l.val, index)

ByteIndexToPosition(doc, index) ==
    LET l == ByteIndexLine(doc, index)
    IN  IF l.err # NoErr
        THEN [err |-> l.err, val |-> NoPosition, last |-> doc.lastLineOffset]
        ELSE LineByteIndexToPosition(doc, l.val, USub(index, doc.Lines[l.val + 1]))

ByteIndexToPoint(doc, index) ==
    LET l == ByteIndexLine(doc, index)
    IN  IF l.err # NoErr THEN [err |-> l.err, val |-> NoPoint]
        ELSE [err |-> NoErr,
              val |-> Point(l.val, USub(index, doc.Lines[l.val + 1]))]

PointToPosition(doc, point) == LineByteIndexToPosition(doc, point.row, point.column)

PositionToPoint(doc, pos) ==
    LET i == PositionToByteIndex(doc, pos)
    IN  IF i.err # NoErr THEN [err |-> i.err, val |-> NoPoint]
        ELSE [err |-> NoErr,
              val |-> Point(pos.line, USub(i.val, doc.Lines[pos.line + 1]))]

-----------------------------------------------------------------------------
(* Syntax tree, parser and highlight captures.  The parser and the query   *)
(* engine are external: a tree is a handle (id), the text it accounts for  *)
(* (covers: the text it was parsed from, with every recorded edit applied) *)
(* and Tree.RootNode().HasChanges() (changed).                             *)

NilTree == [id |-> 0, covers |-> <<>>, changed |-> FALSE]
NoParser == "nil"
TheParser == "parser"
NoQuery == "nil"
TheQuery == "query"
NoCaptures == <<>>

ErrParse == "operation limit"
ErrCancelled == "context canceled"
ParseErrors == {ErrParse, ErrCancelled}
\* What Parser.ParseCtx can do: return a tree, fail, or be cancelled.
ParseOutcomes == {NoErr} \cup ParseErrors

NoParseCall == [called |-> FALSE, oldTree |-> 0, oldChanged |-> FALSE]

\* sitter.EditInput
EditInput(start, end, newEnd, startPoint, oldEndPoint, newEndPoint) ==
    [StartIndex |-> start, OldEndIndex |-> end, NewEndIndex |-> newEnd,
     StartPoint |-> startPoint, OldEndPoint |-> oldEndPoint,
     NewEndPoint |-> newEndPoint]

\* Tree.Edit(input): the tree now accounts for the bytes [StartIndex,
\* NewEndIndex) of text in place of [StartIndex, OldEndIndex).  An edit that
\* changes nothing may or may not mark the root as changed (mark).
TreeEdit(tree, input, text, mark) ==
    LET n == Len(tree.covers)
        noop == input.StartIndex = input.OldEndIndex
                /\ input.StartIndex = input.NewEndIndex
    IN  [id |-> tree.id,
         covers |-> Slice(tree.covers, 0, Min(input.StartIndex, n))
                    \o Slice(text, input.StartIndex, input.NewEndIndex)
                    \o Slice(tree.covers, Min(input.OldEndIndex, n), n),
         changed |-> tree.changed \/ ~noop \/ mark]

\* Parser.ParseCtx(ctx, oldTree, text) when it succeeds.
ParsedTree(id, text) == [id |-> id, covers |-> text, changed |-> FALSE]

\* UpdateTree without line 221: a failed parse leaves doc.Tree as line 210 set it.
UpdateTreeNoRestore(t, parser, text, outcome) ==
    IF parser = NoParser
    THEN [err |-> NoErr, Tree |-> t.Tree, closed |-> t.closed,
          nextTree |-> t.nextTree, parseCall |-> t.parseCall]
    ELSE LET oldTree == t.Tree
             call == [called |-> TRUE, oldTree |-> oldTree.id,
                      oldChanged |-> oldTree.changed]
         IN  IF outcome # NoErr
             THEN [err |-> outcome,
                   Tree |-> IF oldTree.changed THEN oldTree ELSE NilTree,
                   closed |-> t.closed,
                   nextTree |-> t.nextTree, parseCall |-> call]
             ELSE [err |-> NoErr,
                   Tree |-> [id |-> t.nextTree, covers |-> text, changed |-> FALSE],
                   closed |-> IF oldTree # NilTree
                              THEN [t.closed EXCEPT ![oldTree.id] = @ + 1]
                              ELSE t.closed,
                   nextTree |-> t.nextTree + 1,
                   parseCall |-> call]

\* UpdateTree that closes the old tree before it calls the parser.
UpdateTreeCloseFirst(t, parser, text, outcome) ==
    IF parser = NoParser
    THEN [err |-> NoErr, Tree |-> t.Tree, closed |-> t.closed,
          nextTree |-> t.nextTree, parseCall |-> t.parseCall]
    ELSE LET oldTree == t.Tree
             call == [called |-> TRUE, oldTree |-> oldTree.id,
                      oldChanged |-> oldTree.changed]
             closedFirst == IF oldTree # NilTree
                            THEN [t.closed EXCEPT ![oldTree.id] = @ + 1]
                            ELSE t.closed
         IN  IF outcome # NoErr
             THEN [err |-> outcome, Tree |-> oldTree, closed |-> closedFirst,
                   nextTree |-> t.nextTree, parseCall |-> call]
             ELSE [err |-> NoErr,
                   Tree |-> [id |-> t.nextTree, covers |-> text, changed |-> FALSE],
                   closed |-> closedFirst,
                   nextTree |-> t.nextTree + 1,
                   parseCall |-> call]

\* doc.UpdateTree(ctx); outcome is what ParseCtx does if it is reached.
\* t holds Tree, closed, nextTree and parseCall; the result adds err.
UpdateTree(t, parser, text, outcome) ==
    IF parser = NoParser
    THEN [err |-> NoErr, Tree |-> t.Tree, closed |-> t.closed,
          nextTree |-> t.nextTree, parseCall |-> t.parseCall]
    ELSE LET oldTree == t.Tree
             call == [called |-> TRUE, oldTree |-> oldTree.id,
                      oldChanged |-> oldTree.changed]
         IN  IF outcome # NoErr
             THEN [err |-> outcome, Tree |-> oldTree, closed |-> t.closed,
                   nextTree |-> t.nextTree, parseCall |-> call]
             ELSE [err |-> NoErr,
                   Tree |-> ParsedTree(t.nextTree, text),
                   closed |-> IF oldTree # NilTree
                              THEN [t.closed EXCEPT ![oldTree.id] = @ + 1]
                              ELSE t.closed,
                   nextTree |-> t.nextTree + 1,
                   parseCall |-> call]

\* doc.GetHighlightCapturesInNode(root): captures whose nodes belong to tree.
GetHighlightCapturesInNode(tree) == <<[tree |-> tree.id]>>

\* doc.UpdateHighlightCaptures()
UpdateHighlightCaptures(tree, query, captures) ==
    IF tree = NilTree \/ query = NoQuery THEN captures
    ELSE GetHighlightCapturesInNode(tree)

TreeState == [Tree |-> Tree, closed |-> closed, nextTree |-> nextTree,
              parseCall |-> parseCall]

-----------------------------------------------------------------------------
(* Operations *)

Ret(op, err) == [op |-> op, err |-> err]

\* The environment's part of a call: ParseCtx fails only if it is reached, and
\* returns a tree only while handles remain.
Environment(parser, outcome) ==
    /\ parser = NoParser => outcome = NoErr
    /\ (parser # NoParser /\ outcome = NoErr) => nextTree <= MaxTrees

\* Positions and points a caller may pass: every line of the document and one
\* past the last, with every column up to one more than the line has bytes.
InputLines == 0..Len(Lines)
InputColumns(l) == 0..(IF l < Len(Lines) THEN Len(Split(Text)[l + 1]) + 1 ELSE 0)
InputPositions ==
    UNION {{Position(l, c) : c \in InputColumns(l)} : l \in InputLines}
InputIndexes == 0..(TextLength + 1)
InputPoints == UNION {{Point(l, c) : c \in InputColumns(l)} : l \in InputLines}
\* Line-relative byte indexes: those of InputColumns and the two largest UInt.
InputLineIndexes(l) == InputColumns(l) \cup {MaxUInt, USub(MaxUInt, 1)}
InputLinePoints == UNION {{Point(l, c) : c \in InputLineIndexes(l)} : l \in InputLines}
InputRanges == {[start |-> s, end |-> e] : s \in InputPositions, e \in InputPositions}

\* doc.SetTextCtx(text, ctx)
SetTextCtx(text, outcome) ==
    \E u \in {UpdateLines(text)}, r \in {UpdateTree(TreeState, Parser, text, outcome)} :
        /\ Environment(Parser, outcome)
        /\ Text' = text
        /\ Lines' = u.Lines
        /\ TextLength' = u.TextLength
        /\ lastLineOffset' = u.lastLineOffset
        /\ Tree' = r.Tree
        /\ closed' = r.closed
        /\ nextTree' = r.nextTree
        /\ parseCall' = r.parseCall
        /\ ret' = Ret("SetTextCtx", r.err)
        /\ UNCHANGED <<Parser, HighlightQuery, HighlightCaptures>>

\* doc.SetParserCtx(parser, ctx)
SetParserCtx(parser, outcome) ==
    \E r \in {UpdateTree(TreeState, parser, Text, outcome)} :
        /\ Environment(parser, outcome)
        /\ Parser' = parser
        /\ Tree' = r.Tree
        /\ closed' = r.closed
        /\ nextTree' = r.nextTree
        /\ parseCall' = r.parseCall
        /\ ret' = Ret("SetParserCtx", r.err)
        /\ UNCHANGED <<Text, TextLength, Lines, lastLineOffset, HighlightQuery,
                       HighlightCaptures>>

\* doc.SetHighlightQuery(query, ignore)
SetHighlightQuery(query) ==
    /\ HighlightQuery' = query
    /\ HighlightCaptures' = UpdateHighlightCaptures(Tree, query, HighlightCaptures)
    /\ ret' = Ret("SetHighlightQuery", NoErr)
    /\ UNCHANGED <<Text, TextLength, Lines, lastLineOffset, Tree, Parser, closed,
                   nextTree, parseCall>>

\* The four conversions ChangeCtx starts with: the first error, or the byte
\* offsets and points of the range.
ChangeRange(doc, range) ==
    LET start == PositionToByteIndex(doc, range.start)
        end == PositionToByteIndex(doc, range.end)
        startPoint == PositionToPoint(doc, range.start)
        oldEndPoint == PositionToPoint(doc, range.end)
        err == IF start.err # NoErr THEN start.err
               ELSE IF end.err # NoErr THEN end.err
               ELSE IF startPoint.err # NoErr THEN startPoint.err
               ELSE oldEndPoint.err
    IN  [err |-> err, start |-> start.val, end |-> end.val,
         startPoint |-> startPoint.val, oldEndPoint |-> oldEndPoint.val]

\* Splice that inserts at start and removes nothing.
SpliceInsert(old, start, end, text) == Slice(old, 0, start) \o text \o SliceFrom(old, start)

\* doc.Text[:start] + text + doc.Text[end:]
Splice(old, start, end, text) == Slice(old, 0, start) \o text \o SliceFrom(old, end)

\* The document fields ChangeCtx can leave behind, with the error it returns
\* and the edit it handed to Tree.Edit (<<>> when it handed none).
ChangeOutcome(err, text, u, t, captures, edit) ==
    [err |-> err, Text |-> text, TextLength |-> u.TextLength, Lines |-> u.Lines,
     lastLineOffset |-> u.lastLineOffset, Tree |-> t.Tree, closed |-> t.closed,
     nextTree |-> t.nextTree, parseCall |-> t.parseCall,
     HighlightCaptures |-> captures, edit |-> edit]

CurrentLines == [Lines |-> Lines, TextLength |-> TextLength,
                 lastLineOffset |-> lastLineOffset]

\* ChangeCtx, lines 132-140: r is what UpdateTree returned for the edited tree.
ChangeParsed(text, u, input, r) ==
    ChangeOutcome(r.err, text, u, r,
                  IF r.err # NoErr THEN HighlightCaptures
                  ELSE UpdateHighlightCaptures(r.Tree, HighlightQuery,
                                               HighlightCaptures),
                  input)

\* ChangeCtx, lines 123-132: input is the edit handed to Tree.Edit.
ChangeDescribed(text, u, input, outcome, mark) ==
    ChangeParsed(text, u, input,
                 UpdateTree([TreeState EXCEPT !.Tree =
                                TreeEdit(Tree, input, text, mark)],
                            Parser, text, outcome))

\* ChangeCtx, lines 119-130: newEndPoint is what ByteIndexToPoint returned.
ChangeEdited(c, text, u, newEndIndex, newEndPoint, outcome, mark) ==
    IF newEndPoint.err # NoErr
    THEN ChangeOutcome(newEndPoint.err, text, u, TreeState, HighlightCaptures, <<>>)
    ELSE ChangeDescribed(text, u,
             EditInput(c.start, c.end, newEndIndex, c.startPoint, c.oldEndPoint,
                       newEndPoint.val),
             outcome, mark)

\* ChangeCtx, lines 112-114: there was no tree, r is what UpdateTree returned.
ChangeFirstTree(text, u, r) ==
    ChangeOutcome(r.err, text, u, r, HighlightCaptures, <<>>)

\* ChangeSynced that looks newEndIndex up in the line index of the old text.
ChangeSyncedOldLines(c, e, text, u, newEndIndex, outcome, mark) ==
    IF Tree = NilTree
    THEN ChangeFirstTree(text, u, UpdateTree(TreeState, Parser, text, outcome))
    ELSE ChangeEdited(c, text, u, newEndIndex, ByteIndexToPoint(Doc, newEndIndex),
                      outcome, mark)

\* ChangeCtx, lines 112-117: text is the new doc.Text, u what UpdateLines set.
ChangeSynced(c, e, text, u, newEndIndex, outcome, mark) ==
    IF Tree = NilTree
    THEN ChangeFirstTree(text, u, UpdateTree(TreeState, Parser, text, outcome))
    ELSE ChangeEdited(c, text, u, newEndIndex,
                      ByteIndexToPoint([Text |-> text, TextLength |-> u.TextLength,
                                        Lines |-> u.Lines,
                                        lastLineOffset |-> u.lastLineOffset],
                                       newEndIndex),
                      outcome, mark)

\* ChangeCtx, lines 109-110.
ChangeSpliced(c, e, text, outcome, mark) ==
    ChangeSynced(c, e, text, UpdateLines(text), UAdd(c.start, Len(e.text)),
                 outcome, mark)

\* ChangeCtx, lines 85-109: c is what the four conversions returned.
ChangeConverted(c, e, outcome, mark) ==
    IF c.err # NoErr
    THEN ChangeOutcome(c.err, Text, CurrentLines, TreeState, HighlightCaptures, <<>>)
    ELSE ChangeSpliced(c, e, Splice(Text, c.start, c.end, e.text), outcome, mark)

\* doc.ChangeCtx(e, ctx), the whole call: every document field it leaves and
\* the error it returns.  outcome is what ParseCtx does if it is reached, mark
\* whether Tree.Edit marks the root for an edit that changes nothing.
ChangeResult(e, outcome, mark) ==
    ChangeConverted(ChangeRange(Doc, e.range), e, outcome, mark)

\* Whether the edit of e leaves the text as it is (Tree.Edit may then leave
\* the root unmarked).
IsNoopEdit(e) ==
    LET c == ChangeRange(Doc, e.range)
    IN  c.err = NoErr /\ c.start = c.end /\ Len(e.text) = 0

ChangeCtx(e, outcome, mark, texts) ==
    /\ Environment(Parser, outcome)
    /\ mark => (Tree # NilTree /\ IsNoopEdit(e))
    /\ \E r \in {ChangeResult(e, outcome, mark)} :
        /\ outcome # NoErr => r.err = outcome
        /\ r.Text \in texts
        /\ r.Tree.covers \in texts
        /\ Text' = r.Text
        /\ TextLength' = r.TextLength
        /\ Lines' = r.Lines
        /\ lastLineOffset' = r.lastLineOffset
        /\ Tree' = r.Tree
        /\ closed' = r.closed
        /\ nextTree' = r.nextTree
        /\ parseCall' = r.parseCall
        /\ HighlightCaptures' = r.HighlightCaptures
        /\ ret' = Ret("ChangeCtx", r.err)
        /\ UNCHANGED <<Parser, HighlightQuery>>

\* A conversion that reads the document and leaves it alone.
Query(op, r) ==
    /\ ret' = Ret(op, r.err)
    /\ UNCHANGED docVars

\* A conversion that goes through LineByteIndexToPosition and its cache.
CachedQuery(op, r) ==
    /\ ret' = Ret(op, r.err)
    /\ lastLineOffset' = r.last
    /\ UNCHANGED <<Text, TextLength, Lines, Tree, Parser, HighlightQuery,
                   HighlightCaptures, closed, nextTree, parseCall>>

CallPositionToByteIndex ==
    \E pos \in InputPositions :
        Query("PositionToByteIndex", PositionToByteIndex(Doc, pos))

CallPositionToPoint ==
    \E pos \in InputPositions :
        Query("PositionToPoint", PositionToPoint(Doc, pos))

CallByteIndexLine ==
    \E index \in InputIndexes : Query("ByteIndexLine", ByteIndexLine(Doc, index))

CallByteIndexToPoint ==
    \E index \in InputIndexes :
        Query("ByteIndexToPoint", ByteIndexToPoint(Doc, index))

CallByteIndexToPosition ==
    \E index \in InputIndexes :
        CachedQuery("ByteIndexToPosition", ByteIndexToPosition(Doc, index))

CallLineByteIndexToPosition ==
    \E point \in InputLinePoints :
        CachedQuery("LineByteIndexToPosition",
                    LineByteIndexToPosition(Doc, point.row, point.column))

CallPointToPosition ==
    \E point \in InputLinePoints :
        CachedQuery("PointToPosition", PointToPosition(Doc, point))

Conversions ==
    \/ CallPositionToByteIndex
    \/ CallPositionToPoint
    \/ CallByteIndexLine
    \/ CallByteIndexToPoint
    \/ CallByteIndexToPosition
    \/ CallLineByteIndexToPosition
    \/ CallPointToPosition

-----------------------------------------------------------------------------
(* Nodes of the syntax tree.  The tree's nodes are kept in document order  *)
(* (pre-order), the root first: a node is its start and end Point and the  *)
(* index of its parent (0 for the root).  A TreeCursor is an index.        *)

NoNode == 0
Node(start, end, parent) == [start |-> start, end |-> end, parent |-> parent]

\* node.ChildCount()
ChildCount(nodes, i) == Cardinality({j \in 1..Len(nodes) : nodes[j].parent = i})

\* cursor.GoToFirstChild(): the child the cursor moves to, NoNode if none.
GoToFirstChild(nodes, i) ==
    IF i < Len(nodes) /\ nodes[i + 1].parent = i THEN i + 1 ELSE NoNode

\* cursor.GoToNextSibling(): the sibling the cursor moves to, NoNode if none.
GoToNextSibling(nodes, i) ==
    LET later == {j \in (i + 1)..Len(nodes) :
                     nodes[j].parent = nodes[i].parent /\ nodes[i].parent # NoNode}
    IN  IF later = {} THEN NoNode
        ELSE CHOOSE j \in later : \A k \in later : j <= k

Before == -1
Inside == 0
Overlapping == 1
After == 2

\* CompareNodeWithRange, with the Inside and After tests in the other order.
CompareNodeWithRangeAfterFirst(node, rangeStart, rangeEnd) ==
    LET start == node.start
        end == node.end
        zeroRange == rangeStart.row = rangeEnd.row /\ rangeStart.column = rangeEnd.column
    IN  IF zeroRange /\ (\/ start.row = rangeStart.row /\ start.column = rangeStart.column
                         \/ end.row = rangeEnd.row /\ end.column = rangeEnd.column)
        THEN Overlapping
        ELSE IF \/ end.row < rangeStart.row
                \/ rangeStart.row = end.row /\ end.column <= rangeStart.column
        THEN Before
        ELSE IF \/ rangeEnd.row < start.row
                \/ rangeEnd.row = start.row /\ rangeEnd.column <= start.column
        THEN After
        ELSE IF /\ \/ rangeStart.row < start.row
                   \/ rangeStart.row = start.row /\ rangeStart.column <= start.column
                /\ \/ rangeEnd.row > end.row
                   \/ rangeEnd.row = end.row /\ rangeEnd.column >= end.column
        THEN Inside
        ELSE Overlapping

\* CompareNodeWithRange without the test for a zero-width range at a boundary.
CompareNodeWithRangeNoZero(node, rangeStart, rangeEnd) ==
    LET start == node.start
        end == node.end
    IN  IF \/ end.row < rangeStart.row
           \/ rangeStart.row = end.row /\ end.column <= rangeStart.column
        THEN Before
        ELSE IF /\ \/ rangeStart.row < start.row
                   \/ rangeStart.row = start.row /\ rangeStart.column <= start.column
                /\ \/ rangeEnd.row > end.row
                   \/ rangeEnd.row = end.row /\ rangeEnd.column >= end.column
        THEN Inside
        ELSE IF \/ rangeEnd.row < start.row
                \/ rangeEnd.row = start.row /\ rangeEnd.column <= start.column
        THEN After
        ELSE Overlapping

CompareNodeWithRange(node, rangeStart, rangeEnd) ==
    LET start == node.start
        end == node.end
        zeroRange == rangeStart.row = rangeEnd.row /\ rangeStart.column = rangeEnd.column
    IN  IF zeroRange /\ (\/ start.row = rangeStart.row /\ start.column = rangeStart.column
                         \/ end.row = rangeEnd.row /\ end.column = rangeEnd.column)
        THEN Overlapping
        ELSE IF \/ end.row < rangeStart.row
                \/ rangeStart.row = end.row /\ end.column <= rangeStart.column
        THEN Before
        ELSE IF /\ \/ rangeStart.row < start.row
                   \/ rangeStart.row = start.row /\ rangeStart.column <= start.column
                /\ \/ rangeEnd.row > end.row
                   \/ rangeEnd.row = end.row /\ rangeEnd.column >= end.column
        THEN Inside
        ELSE IF \/ rangeEnd.row < start.row
                \/ rangeEnd.row = start.row /\ rangeEnd.column <= start.column
        THEN After
        ELSE Overlapping

NodeOverlapsRange(node, rangeStart, rangeEnd) ==
    CompareNodeWithRange(node, rangeStart, rangeEnd) \in {Inside, Overlapping}

\* The callback of GetNodesByRange that also goes inside the nodes it finds
\* Inside.
SelectNodeAndInside(nodes, i, targets, startPoint, endPoint) ==
    LET res == CompareNodeWithRange(nodes[i], startPoint, endPoint)
    IN  IF res = Before THEN [action |-> 1, targets |-> targets]
        ELSE IF res = Inside THEN [action |-> 0, targets |-> Append(targets, i)]
        ELSE IF res = Overlapping
        THEN IF ChildCount(nodes, i) > 0
             THEN [action |-> 0, targets |-> targets]
             ELSE [action |-> 1, targets |-> Append(targets, i)]
        ELSE [action |-> -1, targets |-> targets]

\* The callback GetNodesByRange hands to VisitNode: what to do at node i
\* (-1 stop, 0 go inside, 1 next sibling) and the targets after it.
SelectNode(nodes, i, targets, startPoint, endPoint) ==
    LET res == CompareNodeWithRange(nodes[i], startPoint, endPoint)
    IN  IF res = Before THEN [action |-> 1, targets |-> targets]
        ELSE IF res = Inside THEN [action |-> 1, targets |-> Append(targets, i)]
        ELSE IF res = Overlapping
        THEN IF ChildCount(nodes, i) > 0
             THEN [action |-> 0, targets |-> targets]
             ELSE [action |-> 1, targets |-> Append(targets, i)]
        ELSE [action |-> -1, targets |-> targets]

RECURSIVE VisitNode(_, _, _, _, _)
\* VisitNode(cursor, compare) with the cursor at node i.  walk is the targets
\* recorded and the nodes handed to compare so far, in the order of the calls.
VisitNode(nodes, i, walk, startPoint, endPoint) ==
    LET c == SelectNode(nodes, i, walk.targets, startPoint, endPoint)
        here == [targets |-> c.targets, compared |-> Append(walk.compared, i)]
    IN  IF c.action < 0 THEN here
        ELSE LET child == GoToFirstChild(nodes, i)
                 inner == IF c.action = 0 /\ child # NoNode
                          THEN VisitNode(nodes, child, here, startPoint, endPoint)
                          ELSE here
                 next == GoToNextSibling(nodes, i)
             IN  IF next = NoNode THEN inner
                 ELSE VisitNode(nodes, next, inner, startPoint, endPoint)

NoEnd == [line |-> -1, character |-> -1]

\* The nodes of doc.Tree, the root first; none when doc.Tree is nil.
NodesOf(tree) == IF tree = NilTree THEN <<>> ELSE tree.nodes

\* What a call does that reads the root of a nil doc.Tree: tree.RootNode()
\* dereferences the nil *Tree and the goroutine panics; no value and no error
\* are returned.
PanicNilTree == "panic: invalid memory address or nil pointer dereference"

\* doc.GetNodesByRange(start, end); end = NoEnd is the nil end.  The value is
\* the sequence of the selected nodes' indexes; compared is the nodes the
\* callback of VisitNode was called with, in the order of the calls.
GetNodesByRange(doc, nodes, start, end) ==
    LET startPoint == PositionToPoint(doc, start)
    IN  IF nodes = <<>>
        THEN [err |-> PanicNilTree, val |-> <<>>, compared |-> <<>>]
        ELSE IF startPoint.err # NoErr
        THEN [err |-> startPoint.err, val |-> <<>>, compared |-> <<>>]
        ELSE LET endPoint == IF end = NoEnd THEN startPoint
                             ELSE PositionToPoint(doc, end)
             IN  IF endPoint.err # NoErr
                 THEN [err |-> endPoint.err, val |-> <<>>, compared |-> <<>>]
                 ELSE IF CompareNodeWithRange(nodes[1], startPoint.val, endPoint.val) = Inside
                 THEN [err |-> NoErr, val |-> <<1>>, compared |-> <<>>]
                 ELSE LET walk == VisitNode(nodes, 1, [targets |-> <<>>, compared |-> <<>>],
                                            startPoint.val, endPoint.val)
                      IN  [err |-> NoErr, val |-> walk.targets,
                           compared |-> walk.compared]

\* GetNodeByPosition that takes the first node touching the position, childless
\* or not.
GetNodeByPositionShallow(doc, nodes, pos) ==
    LET point == PositionToPoint(doc, pos)
    IN  IF point.err # NoErr THEN [err |-> point.err, val |-> NoNode]
        ELSE LET touching == {i \in 1..Len(nodes) :
                                 NodeOverlapsRange(nodes[i], point.val, point.val)}
             IN  [err |-> NoErr,
                  val |-> IF touching = {} THEN NoNode
                          ELSE CHOOSE i \in touching : \A k \in touching : i <= k]

GetNodeByPosition(doc, nodes, pos) ==
    LET r == GetNodesByRange(doc, nodes, pos, NoEnd)
    IN  IF r.err # NoErr THEN [err |-> r.err, val |-> NoNode]
        ELSE IF Len(r.val) = 0 THEN [err |-> NoErr, val |-> NoNode]
        ELSE [err |-> NoErr, val |-> r.val[1]]

NoCapture == 0
Capture(tree, node) == [tree |-> tree, node |-> node]

RECURSIVE ClosestScan(_, _, _, _, _, _)
\* The loop of GetClosestHighlightCaptureByPosition from capture k on.
ClosestScan(nodes, captures, k, point, prev, target) ==
    IF k > Len(captures)
    THEN [err |-> NoErr, prev |-> prev, target |-> target, next |-> NoCapture]
    ELSE LET res == CompareNodeWithRange(nodes[captures[k].node], point, point)
         IN  IF res = Before
             THEN ClosestScan(nodes, captures, k + 1, point, k, target)
             ELSE IF res = After
             THEN [err |-> NoErr, prev |-> prev, target |-> target, next |-> k]
             ELSE ClosestScan(nodes, captures, k + 1, point, prev, k)

\* GetClosestHighlightCaptureByPosition that goes on after the first capture
\* past the point.
ClosestNoStop(doc, nodes, captures, pos) ==
    LET point == PositionToPoint(doc, pos)
        after == {k \in 1..Len(captures) :
                     CompareNodeWithRange(nodes[captures[k].node], point.val, point.val) = After}
        before == {k \in 1..Len(captures) :
                     CompareNodeWithRange(nodes[captures[k].node], point.val, point.val) = Before}
        rest == (1..Len(captures)) \ (before \cup after)
        Last(S) == IF S = {} THEN NoCapture ELSE CHOOSE k \in S : \A j \in S : j <= k
    IN  IF point.err # NoErr
        THEN [err |-> point.err, prev |-> NoCapture, target |-> NoCapture,
              next |-> NoCapture]
        ELSE [err |-> NoErr, prev |-> Last(before), target |-> Last(rest),
              next |-> Last(after)]

\* doc.GetClosestHighlightCaptureByPosition(pos); a capture is named by its
\* index in HighlightCaptures, NoCapture is nil.
GetClosestHighlightCaptureByPosition(doc, nodes, captures, pos) ==
    LET point == PositionToPoint(doc, pos)
    IN  IF point.err # NoErr
        THEN [err |-> point.err, prev |-> NoCapture, target |-> NoCapture,
              next |-> NoCapture]
        ELSE ClosestScan(nodes, captures, 1, point.val, NoCapture, NoCapture)

(* The trees a parser can return for a document: every node starts no      *)
(* later than it ends, on codepoint boundaries; a child lies within its    *)
(* parent; siblings follow each other without overlap.                     *)

PointLe(a, b) == a.row < b.row \/ (a.row = b.row /\ a.column <= b.column)

PositionsOf(doc) ==
    {Position(l, c) : l \in 0..(Len(doc.Lines) - 1), c \in 0..doc.TextLength}

\* The points of the codepoint boundaries of the text.
NodePoints(doc) ==
    {PositionToPoint(doc, p).val :
        p \in {q \in PositionsOf(doc) : PositionToPoint(doc, q).err = NoErr}}

RECURSIVE Ancestors(_, _)
\* Node i and the nodes above it.
Ancestors(nodes, i) ==
    IF i = NoNode THEN {} ELSE {i} \cup Ancestors(nodes, nodes[i].parent)

\* Where the children of node p may start: after the last of them, or at the
\* start of p.
FreeFrom(nodes, p) ==
    LET children == {j \in 1..Len(nodes) : nodes[j].parent = p}
    IN  IF children = {} THEN nodes[p].start
        ELSE nodes[CHOOSE j \in children : \A k \in children : k <= j].end

\* The trees that have one node more than nodes, added last in document order.
ExtendTree(doc, nodes) ==
    {Append(nodes, Node(a, b, p)) :
        <<a, b, p>> \in {t \in NodePoints(doc) \X NodePoints(doc) \X Ancestors(nodes, Len(nodes)) :
                            /\ PointLe(t[1], t[2])
                            /\ PointLe(FreeFrom(nodes, t[3]), t[1])
                            /\ PointLe(t[2], nodes[t[3]].end)}}

RECURSIVE TreesOfSize(_, _)
TreesOfSize(doc, n) ==
    IF n = 1
    THEN {<<Node(a, b, NoNode)>> :
             <<a, b>> \in {t \in NodePoints(doc) \X NodePoints(doc) : PointLe(t[1], t[2])}}
    ELSE UNION {ExtendTree(doc, nodes) : nodes \in TreesOfSize(doc, n - 1)}

\* root.NamedDescendantForPointRange(point, point), a function of the parser
\* library: the nodes it may return, those that span the point and have no
\* child that does, or the root when no node spans the point.
NamedDescendantForPointRange(nodes, point) ==
    LET Spans(i) == PointLe(nodes[i].start, point) /\ PointLe(point, nodes[i].end)
        smallest == {i \in 1..Len(nodes) :
                        /\ \A a \in Ancestors(nodes, i) : Spans(a)
                        /\ ~\E j \in 1..Len(nodes) : nodes[j].parent = i /\ Spans(j)}
    IN  IF smallest = {} THEN {1} ELSE smallest

\* doc.GetClosestNodeByPosition(pos): the error and the nodes it may return.
GetClosestNodeByPosition(doc, nodes, pos) ==
    LET point == PositionToPoint(doc, pos)
    IN  IF point.err # NoErr THEN [err |-> point.err, val |-> {NoNode}]
        ELSE IF nodes = <<>> THEN [err |-> PanicNilTree, val |-> {NoNode}]
        ELSE [err |-> NoErr, val |-> NamedDescendantForPointRange(nodes, point.val)]

-----------------------------------------------------------------------------
(* Semantic tokens.  A stored capture is the tree it was taken from, the    *)
(* node it captured and the index of its capture name in the query.         *)

QueryCapture(tree, node, index) == [tree |-> tree, node |-> node, index |-> index]

\* A HighlightLegend: a TokenType for each capture name of the query.
TokenType(type, modifiers) == [Type |-> type, Modifiers |-> modifiers]

\* One token that is always relative to the previous one in its character.
EncodeTokenAlwaysRelative(start, end, prev, tokenType) ==
    LET line == IF prev = <<>> THEN start.line ELSE USub(start.line, prev[1].line)
        character == IF prev # <<>>
                     THEN USub(start.character, prev[1].character)
                     ELSE start.character
    IN  <<line, character, USub(end.character, start.character),
          tokenType.Type, tokenType.Modifiers>>

\* The five values of one capture in ConvertHighlightCaptures: start and end
\* are the positions of its node, prev is <<>> (nil) or <<the start position
\* of the capture before it>>.
EncodeToken(start, end, prev, tokenType) ==
    LET line == IF prev = <<>> THEN start.line ELSE USub(start.line, prev[1].line)
        character == IF prev # <<>> /\ line = 0
                     THEN USub(start.character, prev[1].character)
                     ELSE start.character
    IN  <<line, character, USub(end.character, start.character),
          tokenType.Type, tokenType.Modifiers>>

RECURSIVE ConvertLoop(_, _, _, _, _, _, _)
\* The loop of ConvertHighlightCaptures from capture i on.  The value of a
\* failed call is nil (<<>>); the position cache is what the calls of
\* PointToPosition left.
ConvertLoop(doc, nodes, list, legend, i, prev, tokens) ==
    IF i > Len(list)
    THEN [err |-> NoErr, val |-> tokens, last |-> doc.lastLineOffset]
    ELSE LET node == nodes[list[i].node]
             start == PointToPosition(doc, node.start)
             doc1 == [doc EXCEPT !.lastLineOffset = start.last]
             end == PointToPosition(doc1, node.end)
             doc2 == [doc EXCEPT !.lastLineOffset = end.last]
         IN  IF start.err # NoErr
             THEN [err |-> start.err, val |-> <<>>, last |-> start.last]
             ELSE IF end.err # NoErr
             THEN [err |-> end.err, val |-> <<>>, last |-> end.last]
             ELSE ConvertLoop(doc2, nodes, list, legend, i + 1, <<start.val>>,
                              tokens \o EncodeToken(start.val, end.val, prev,
                                                    legend[list[i].index + 1]))

\* doc.ConvertHighlightCaptures(legend)
ConvertHighlightCaptures(doc, nodes, list, legend) ==
    ConvertLoop(doc, nodes, list, legend, 1, <<>>, <<>>)

-----------------------------------------------------------------------------
(* The word around a position *)

\* Texts of the word specification: at most this many units.
MaxWordUnits == 3
WordUnits == {<<97>>, <<32>>, <<NL>>, <<195, 169>>, <<239, 191, 189>>}
WordTexts == {Concat(q) : q \in SeqsUpTo(WordUnits, MaxWordUnits)}

\* utf8.RuneStart(b)
RuneStart(b) == b < 128 \/ b >= 192

RECURSIVE LastRuneStart(_, _, _)
\* The descending loop of utf8.DecodeLastRuneInString: the index it stops at,
\* lim - 1 if no byte from start down to lim can start a rune.
LastRuneStart(s, start, lim) ==
    IF start < lim \/ RuneStart(s[start + 1]) THEN start
    ELSE LastRuneStart(s, start - 1, lim)

\* utf8.DecodeLastRuneInString(s)
DecodeLastRuneInString(s) ==
    LET end == Len(s)
    IN  IF end = 0 THEN [char |-> RuneError, size |-> 0]
        ELSE IF s[end] < 128 THEN [char |-> s[end], size |-> 1]
        ELSE LET lim == IF end - 4 < 0 THEN 0 ELSE end - 4
                 found == LastRuneStart(s, end - 2, lim)
                 start == IF found < 0 THEN 0 ELSE found
                 d == DecodeRuneInString(Slice(s, start, end))
             IN  IF start + d.size # end THEN [char |-> RuneError, size |-> 1]
                 ELSE d

Space == 32

RECURSIVE WordStart(_, _, _)
\* The first loop of GetNonSpaceTextAroundPosition.
WordStart(doc, min, start) ==
    IF ULe(start, min) THEN [err |-> NoErr, val |-> min]
    ELSE LET d == DecodeLastRuneInString(Slice(doc.Text, min, start))
         IN  IF d.char = RuneError THEN [err |-> ErrRune, val |-> 0]
             ELSE IF d.char = Space THEN [err |-> NoErr, val |-> start]
             ELSE WordStart(doc, min, USub(start, d.size))

RECURSIVE WordEnd(_, _, _)
\* The second loop of GetNonSpaceTextAroundPosition.
WordEnd(doc, max, end) ==
    IF UGe(end, max) THEN [err |-> NoErr, val |-> max]
    ELSE LET d == DecodeRuneInString(Slice(doc.Text, end, max))
         IN  IF d.char = RuneError THEN [err |-> ErrRune, val |-> 0]
             ELSE IF d.char = Space THEN [err |-> NoErr, val |-> end]
             ELSE WordEnd(doc, max, UAdd(end, d.size))

\* doc.GetNonSpaceTextAroundPosition(pos)
GetNonSpaceTextAroundPosition(doc, pos) ==
    LET at == PositionToByteIndex(doc, pos)
        mm == LineMinMaxByteIndex(doc, pos.line)
    IN  IF at.err # NoErr THEN [err |-> at.err, val |-> <<>>]
        ELSE IF mm.err # NoErr THEN [err |-> mm.err, val |-> <<>>]
        ELSE LET start == WordStart(doc, mm.min, at.val)
                 end == WordEnd(doc, mm.max, at.val)
             IN  IF start.err # NoErr THEN [err |-> start.err, val |-> <<>>]
                 ELSE IF end.err # NoErr THEN [err |-> end.err, val |-> <<>>]
                 ELSE [err |-> NoErr, val |-> Slice(doc.Text, start.val, end.val)]

-----------------------------------------------------------------------------
(* Specifications *)

\* Replacement texts of an edit: nothing, or one unit.
Replacements(units) == {<<>>} \cup units

InitWith(texts) ==
    \E text \in texts :
        LET doc == NewTextDocument(text)
        IN  /\ Text = doc.Text
            /\ TextLength = doc.TextLength
            /\ Lines = doc.Lines
            /\ lastLineOffset = doc.lastLineOffset
            /\ Tree = NilTree
            /\ Parser = NoParser
            /\ HighlightQuery = NoQuery
            /\ HighlightCaptures = NoCaptures
            /\ closed = [id \in 1..(MaxTrees + 1) |-> 0]
            /\ nextTree = 1
            /\ parseCall = NoParseCall
            /\ ret = Ret("NewTextDocument", NoErr)

\* The document with a parser: texts, trees and highlight captures.  The
\* conversions are left to SpecConv; here the position cache stays empty.
Init == InitWith(DocTexts)

SetText == \E text \in DocTexts, outcome \in ParseOutcomes : SetTextCtx(text, outcome)

SetParser ==
    \E parser \in {NoParser, TheParser}, outcome \in ParseOutcomes :
        SetParserCtx(parser, outcome)

SetQuery == \E query \in {NoQuery, TheQuery} : SetHighlightQuery(query)

Change ==
    \E range \in InputRanges, text \in Replacements(DocUnits),
       outcome \in ParseOutcomes, mark \in BOOLEAN :
        ChangeCtx([range |-> range, text |-> text], outcome, mark, DocTexts)

Next ==
    \/ SetText
    \/ SetParser
    \/ SetQuery
    \/ Change

Spec == Init /\ [][Next]_vars

\* The document without a parser: richer texts, edits and conversions.
InitConv == InitWith(ConvTexts)

ChangeConv ==
    \E range \in InputRanges, text \in Replacements(ConvUnits) :
        ChangeCtx([range |-> range, text |-> text], NoErr, FALSE, ConvTexts)

SetTextConv == \E text \in ConvTexts : SetTextCtx(text, NoErr)

NextConv ==
    \/ SetTextConv
    \/ ChangeConv
    \/ Conversions

SpecConv == InitConv /\ [][NextConv]_vars

\* The document once a parser has returned a tree for its text and a query
\* has captured some of the tree's nodes, in document order: the selections
\* of nodes and captures.  Nothing below modifies the document.
NodeRet(op, err, val) == [op |-> op, err |-> err, val |-> val]

\* What a query may capture, in document order: nothing, every node, or the
\* childless nodes.
CaptureLists(nodes) ==
    LET IsLeaf(i) == ChildCount(nodes, i) = 0
        all == [i \in 1..Len(nodes) |-> i]
    IN  {<<>>, all, SelectSeq(all, IsLeaf)}

InitNodes ==
    \E text \in NodeTexts :
        \E doc \in {NewTextDocument(text)} :
            \E nodes \in UNION {TreesOfSize(doc, n) : n \in 1..MaxNodes} :
                \E captured \in CaptureLists(nodes) :
                    /\ Text = doc.Text
                    /\ TextLength = doc.TextLength
                    /\ Lines = doc.Lines
                    /\ lastLineOffset = doc.lastLineOffset
                    /\ Tree = [id |-> 1, covers |-> text, changed |-> FALSE,
                               nodes |-> nodes]
                    /\ Parser = TheParser
                    /\ HighlightQuery = TheQuery
                    /\ HighlightCaptures =
                           [k \in 1..Len(captured) |-> Capture(1, captured[k])]
                    /\ closed = [id \in 1..(MaxTrees + 1) |-> 0]
                    /\ nextTree = 2
                    /\ parseCall = [called |-> TRUE, oldTree |-> 0, oldChanged |-> FALSE]
                    /\ ret = NodeRet("SetParserCtx", NoErr, NoNode)

NodeQuery(op, err, val) ==
    /\ ret' = NodeRet(op, err, val)
    /\ UNCHANGED docVars

CallCompareNodeWithRange ==
    \E i \in 1..Len(Tree.nodes), rangeStart \in InputPoints, rangeEnd \in InputPoints :
        NodeQuery("CompareNodeWithRange", NoErr,
                  CompareNodeWithRange(Tree.nodes[i], rangeStart, rangeEnd))

CallGetNodesByRange ==
    \E range \in InputRanges :
        \E r \in {GetNodesByRange(Doc, NodesOf(Tree), range.start, range.end)} :
            NodeQuery("GetNodesByRange", r.err, r.val)

CallGetNodeByPosition ==
    \E pos \in InputPositions :
        \E r \in {GetNodeByPosition(Doc, NodesOf(Tree), pos)} :
            NodeQuery("GetNodeByPosition", r.err, r.val)

CallGetClosestHighlightCaptureByPosition ==
    \E pos \in InputPositions :
        \E r \in {GetClosestHighlightCaptureByPosition(Doc, Tree.nodes,
                                                       HighlightCaptures, pos)} :
            NodeQuery("GetClosestHighlightCaptureByPosition", r.err,
                      <<r.prev, r.target, r.next>>)

NextNodes ==
    \/ CallCompareNodeWithRange
    \/ CallGetNodesByRange
    \/ CallGetNodeByPosition
    \/ CallGetClosestHighlightCaptureByPosition

SpecNodes == InitNodes /\ [][NextNodes]_vars

\* The document with a tree of nodes and the captures of a query with two
\* capture names: the conversion of the captures into semantic tokens.
InitParsed(doc, nodes, captures) ==
    /\ Text = doc.Text
    /\ TextLength = doc.TextLength
    /\ Lines = doc.Lines
    /\ lastLineOffset = doc.lastLineOffset
    /\ Tree = [id |-> 1, covers |-> doc.Text, changed |-> FALSE, nodes |-> nodes]
    /\ Parser = TheParser
    /\ HighlightQuery = TheQuery
    /\ HighlightCaptures = captures
    /\ closed = [id \in 1..(MaxTrees + 1) |-> 0]
    /\ nextTree = 2
    /\ parseCall = [called |-> TRUE, oldTree |-> 0, oldChanged |-> FALSE]
    /\ ret = NodeRet("SetParserCtx", NoErr, NoNode)

\* The captures of a query, in document order: capture name 1 for a
\* childless node, capture name 0 for the others.
IndexedCaptures(nodes, captured) ==
    [k \in 1..Len(captured) |->
        QueryCapture(1, captured[k],
                     IF ChildCount(nodes, captured[k]) = 0 THEN 1 ELSE 0)]

InitTokens ==
    \E text \in NodeTexts :
        \E doc \in {NewTextDocument(text)} :
            \E nodes \in UNION {TreesOfSize(doc, n) : n \in 1..MaxNodes} :
                \E captured \in CaptureLists(nodes) :
                    InitParsed(doc, nodes, IndexedCaptures(nodes, captured))

Legends == {<<TokenType(0, 0), TokenType(1, 1)>>}

CallConvertHighlightCaptures ==
    \E legend \in Legends :
        \E r \in {ConvertHighlightCaptures(Doc, Tree.nodes, HighlightCaptures, legend)} :
            /\ ret' = NodeRet("ConvertHighlightCaptures", r.err, r.val)
            /\ lastLineOffset' = r.last
            /\ UNCHANGED <<Text, TextLength, Lines, Tree, Parser, HighlightQuery,
                           HighlightCaptures, closed, nextTree, parseCall>>

NextTokens == CallConvertHighlightCaptures

SpecTokens == InitTokens /\ [][NextTokens]_vars

\* The document before it has a tree: no parser is set, or every parse so far
\* has failed.  The selections of nodes are called all the same.
SetTextNoTree == \E text \in ConvTexts, outcome \in ParseOutcomes :
    /\ Parser # NoParser => outcome \in ParseErrors
    /\ SetTextCtx(text, outcome)

SetParserNoTree ==
    \E parser \in {NoParser, TheParser}, outcome \in ParseOutcomes :
        /\ parser # NoParser => outcome \in ParseErrors
        /\ SetParserCtx(parser, outcome)

CallGetClosestNodeByPosition ==
    \E pos \in InputPositions :
        \E r \in {GetClosestNodeByPosition(Doc, NodesOf(Tree), pos)} :
            \E node \in r.val :
                NodeQuery("GetClosestNodeByPosition", r.err, node)

NextNoTree ==
    \/ SetTextNoTree
    \/ SetParserNoTree
    \/ CallGetNodesByRange
    \/ CallGetNodeByPosition
    \/ CallGetClosestNodeByPosition

SpecNoTree == InitConv /\ [][NextNoTree]_vars

\* The document with a tree of up to MaxWalkNodes nodes: the walk of
\* GetNodesByRange.
\* The texts of SpecNodes and the one-line texts of up to MaxWalkUnits units.
WalkTexts == NodeTexts \cup {Concat(q) : q \in SeqsUpTo({<<195, 169>>}, MaxWalkUnits)}

InitWalk ==
    \E text \in WalkTexts :
        \E doc \in {NewTextDocument(text)} :
            \E nodes \in UNION {TreesOfSize(doc, n) : n \in 1..MaxWalkNodes} :
                InitParsed(doc, nodes, NoCaptures)

NextWalk == CallGetNodesByRange

SpecWalk == InitWalk /\ [][NextWalk]_vars

\* The document without a parser, over texts with spaces: the word around a
\* position.
InitWords == InitWith(WordTexts)

CallGetNonSpaceTextAroundPosition ==
    \E pos \in InputPositions :
        \E r \in {GetNonSpaceTextAroundPosition(Doc, pos)} :
            NodeQuery("GetNonSpaceTextAroundPosition", r.err, r.val)

NextWords == CallGetNonSpaceTextAroundPosition

SpecWords == InitWords /\ [][NextWords]_vars

-----------------------------------------------------------------------------
(* Reference notions the claims are stated with *)

ParseReachedOps == {"SetTextCtx", "SetParserCtx", "ChangeCtx"}

\* The last call ran the parser and the parser returned a tree.
TreeReplaced ==
    /\ ret.op \in ParseReachedOps
    /\ ret.err = NoErr
    /\ Parser # NoParser

\* 1 + byte offset of every line terminator of text.
RefLineStarts(text) == {i \in 1..Len(text) : text[i] = NL}

\* lines is the line index of text.
IsLineIndexOf(lines, text) ==
    /\ Len(lines) = 1 + Cardinality(RefLineStarts(text))
    /\ lines[1] = 0
    /\ \A k \in 2..Len(lines) : lines[k] \in RefLineStarts(text)
    /\ \A k \in 1..(Len(lines) - 1) : lines[k] < lines[k + 1]

\* Byte offset at which line `line` of text starts (line < number of lines).
RefLineStart(text, line) ==
    CHOOSE o \in {0} \cup RefLineStarts(text) :
        Cardinality({t \in RefLineStarts(text) : t <= o}) = line

\* Byte offset at which the line starting at `start` ends: its terminator, or
\* the end of text.
RefLineEnd(text, start) ==
    IF \E t \in RefLineStarts(text) : t > start
    THEN (CHOOSE t \in RefLineStarts(text) :
              t > start /\ \A v \in RefLineStarts(text) : v > start => t <= v) - 1
    ELSE Len(text)

RECURSIVE RefCodepointBytes(_, _)
\* Total byte length of the first n codepoints of s (all of s if it has fewer).
RefCodepointBytes(s, n) ==
    IF n = 0 \/ s = <<>> THEN 0
    ELSE LET size == DecodeRuneInString(s).size
         IN  size + RefCodepointBytes(SliceFrom(s, size), n - 1)

\* Bytes of line `line` of text, terminator excluded.
RefLine(text, line) ==
    Slice(text, RefLineStart(text, line), RefLineEnd(text, RefLineStart(text, line)))

\* Byte offset of position pos in text.
RefByteOffset(text, pos) ==
    RefLineStart(text, pos.line) + RefCodepointBytes(RefLine(text, pos.line), pos.character)

\* old[0:start] + text + old[end:], byte by byte.
RefSplice(old, start, end, text) ==
    [i \in 1..(start + Len(text) + Len(old) - end) |->
        IF i <= start THEN old[i]
        ELSE IF i <= start + Len(text) THEN text[i - start]
        ELSE old[end + (i - start - Len(text))]]

RECURSIVE RefRuneCount(_)
\* Number of codepoints of s, an undecodable byte counted as one.
RefRuneCount(s) ==
    IF s = <<>> THEN 0
    ELSE 1 + RefRuneCount(SliceFrom(s, DecodeRuneInString(s).size))

RECURSIVE RefValidUTF8(_)
\* s is well-formed UTF-8 (U+FFFD, encoded in three bytes, included).
RefValidUTF8(s) ==
    \/ s = <<>>
    \/ LET d == DecodeRuneInString(s)
       IN  /\ d.char # RuneError \/ d.size = 3
           /\ RefValidUTF8(SliceFrom(s, d.size))

RECURSIVE RefAllDecodable(_)
\* Every codepoint of s decodes to something other than U+FFFD.
RefAllDecodable(s) ==
    \/ s = <<>>
    \/ LET d == DecodeRuneInString(s)
       IN  d.char # RuneError /\ RefAllDecodable(SliceFrom(s, d.size))

\* Line of text that holds byte offset b.
RefLineOf(text, b) == Cardinality({t \in RefLineStarts(text) : t <= b})

\* Offsets at which a codepoint of line `line` of text starts or ends.
RefBoundaries(text, line) ==
    {RefLineStart(text, line) + RefCodepointBytes(RefLine(text, line), n) :
        n \in 0..Len(RefLine(text, line))}

\* The first codepoint boundary at or after b on b's line.
RefNextBoundary(text, b) ==
    CHOOSE o \in RefBoundaries(text, RefLineOf(text, b)) :
        /\ o >= b
        /\ \A v \in RefBoundaries(text, RefLineOf(text, b)) : v >= b => o <= v

\* Every codepoint of b's line that starts before b decodes to something
\* other than U+FFFD.
RefDecodableBefore(text, b) ==
    \A o \in RefBoundaries(text, RefLineOf(text, b)) :
        o < b => DecodeRuneInString(SliceFrom(text, o)).char # RuneError

ConversionOps ==
    {"PositionToByteIndex", "PositionToPoint", "ByteIndexLine", "ByteIndexToPosition",
     "ByteIndexToPoint", "LineByteIndexToPosition", "PointToPosition"}

\* The edits a caller may pass in the current state.
InputEvents(units) ==
    {[range |-> range, text |-> text] :
        range \in InputRanges, text \in Replacements(units)}

-----------------------------------------------------------------------------
(* C1: whenever Tree is non-nil it accounts for the current Text: it was   *)
(* parsed from it, or every modification since has been recorded with      *)
(* Tree.Edit.  Stated as in the claim; the code breaks it (SetTextCtx      *)
(* whose parse fails keeps the tree of the old text).                      *)
C1_TreeMatchesText == Tree # NilTree => Tree.covers = Text

(* C2: after a call that replaced Tree while a HighlightQuery is set,      *)
(* HighlightCaptures are the captures of the new tree, and no capture ever *)
(* belongs to a tree that has been closed.  Stated as in the claim; the    *)
(* code breaks it (only ChangeCtx on an existing tree refreshes).          *)
C2_CapturesFollowTree ==
    /\ (TreeReplaced /\ HighlightQuery # NoQuery)
           => HighlightCaptures = GetHighlightCapturesInNode(Tree)
    /\ \A i \in 1..Len(HighlightCaptures) : closed[HighlightCaptures[i].tree] = 0

(* C4: the parser gets the previous tree only when that tree has pending   *)
(* edits.  Stated as in the claim; the code breaks it (ParseCtx is always  *)
(* handed oldTree).                                                        *)
C4_HintOnlyWhenChanged ==
    (parseCall.called /\ parseCall.oldTree # 0) => parseCall.oldChanged

(* C3: a parser error (cancellation included) during ChangeCtx is returned, *)
(* the previous tree stays doc.Tree (same handle, not closed, the edit      *)
(* recorded on it), Text and Lines reflect the edit and HighlightCaptures   *)
(* are not refreshed.                                                       *)
C3_ParseFailureInChange ==
    \A e \in InputEvents(DocUnits), outcome \in ParseErrors, mark \in BOOLEAN :
        \A c \in {ChangeRange(Doc, e.range)}, r \in {ChangeResult(e, outcome, mark)} :
            (Parser # NoParser /\ c.err = NoErr) =>
                /\ r.err = outcome
                /\ r.Tree.id = Tree.id
                /\ r.closed = closed
                /\ r.nextTree = nextTree
                /\ (Tree # NilTree /\ Tree.covers = Text) => r.Tree.covers = r.Text
                /\ r.Text = RefSplice(Text, RefByteOffset(Text, e.range.start),
                                      RefByteOffset(Text, e.range.end), e.text)
                /\ IsLineIndexOf(r.Lines, r.Text)
                /\ r.TextLength = Len(r.Text)
                /\ r.HighlightCaptures = HighlightCaptures

\* ChangeCtx has just returned a parser error with a tree and captures at hand.
C3_Witness ==
    /\ ret.op = "ChangeCtx"
    /\ ret.err \in ParseErrors
    /\ Tree # NilTree
    /\ Tree.changed
    /\ Tree.covers = Text
    /\ Text # <<>>
    /\ HighlightQuery # NoQuery
    /\ HighlightCaptures # NoCaptures

(* C5: for every Change whose start and end positions are valid, the new  *)
(* Text is old Text[0:start] + replacement + old Text[end:], start and end *)
(* being the byte offsets of the range's positions in the pre-edit text.   *)
C5_ChangeSplicesText ==
    \A e \in InputEvents(ConvUnits) :
        \A c \in {ChangeRange(Doc, e.range)} :
            c.err = NoErr =>
                ChangeResult(e, NoErr, FALSE).Text =
                    RefSplice(Text, RefByteOffset(Text, e.range.start),
                              RefByteOffset(Text, e.range.end), e.text)

\* Change has just succeeded on a text of several lines with a multi-byte
\* codepoint, where a replacement over a non-empty span is at hand.
C5_Witness ==
    /\ ret.op = "ChangeCtx"
    /\ ret.err = NoErr
    /\ Len(Lines) > 1
    /\ \E i \in 1..Len(Text) : Text[i] > 127
    /\ \E e \in InputEvents(ConvUnits) :
           \E c \in {ChangeRange(Doc, e.range)} :
               c.err = NoErr /\ c.start < c.end /\ e.text # <<>>

(* C6: a conversion that returns an error leaves Text, TextLength, Lines,  *)
(* Tree, HighlightCaptures and the position cache (the whole document)     *)
(* unchanged, and so does a ChangeCtx that fails converting its range.     *)
C6_FailedConversionFrame ==
    [][(ret'.op \in ConversionOps \cup {"ChangeCtx"} /\ ret'.err # NoErr /\ ret'.err \notin ParseErrors)
          => UNCHANGED docVars]_vars

\* A conversion through the position cache has just failed while the cache
\* holds an entry.
C6_Witness ==
    /\ ret.op \in {"LineByteIndexToPosition", "PointToPosition", "ByteIndexToPosition"}
    /\ ret.err # NoErr
    /\ lastLineOffset # NoOffset

(* C7: Lines is the line index of the current Text: Lines[0] = 0, every    *)
(* later entry is 1 + the offset of a line terminator, strictly increasing, *)
(* one entry more than there are terminators, Lines[i+1] - Lines[i] - 1    *)
(* the byte length of line i; TextLength is the byte length of Text.       *)
C7_LinesIndexText ==
    /\ IsLineIndexOf(Lines, Text)
    /\ \A k \in 1..(Len(Lines) - 1) :
           Lines[k + 1] - Lines[k] - 1 = Len(RefLine(Text, k - 1))
    /\ TextLength = Len(Text)

\* Change or SetText has just produced a text that ends with a terminator.
C7_Witness ==
    /\ ret.op \in {"ChangeCtx", "SetTextCtx"}
    /\ ret.err = NoErr
    /\ Len(Text) > 1
    /\ Text[Len(Text)] = NL
    /\ Len(Lines) > 1

(* C8: for every position p on which PositionToByteIndex succeeds,         *)
(* ByteIndexToPosition of the result succeeds and returns p, whatever the  *)
(* position cache holds.                                                   *)
C8_PositionRoundTrip ==
    \A p \in InputPositions :
        \A i \in {PositionToByteIndex(Doc, p)} :
            i.err = NoErr =>
                \A q \in {ByteIndexToPosition(Doc, i.val)} :
                    q.err = NoErr /\ q.val = p

\* The cache left by an earlier query lies past a valid position of its line.
C8_Witness ==
    /\ ret.op \in {"LineByteIndexToPosition", "PointToPosition", "ByteIndexToPosition"}
    /\ ret.err = NoErr
    /\ lastLineOffset.column > 0
    /\ \E p \in InputPositions :
           /\ p.line = lastLineOffset.line
           /\ PositionToByteIndex(Doc, p).err = NoErr
           /\ PositionToByteIndex(Doc, p).val < lastLineOffset.offset
           /\ p.character > 0

(* C9, as stated: for every byte offset b with 0 <= b <= TextLength,       *)
(* ByteIndexToPosition(b) succeeds and PositionToByteIndex of the returned *)
(* position returns b.  Stated for texts all of whose codepoints decode;   *)
(* an offset inside a multi-byte codepoint breaks it.                      *)
C9_OffsetRoundTrip ==
    RefAllDecodable(Text) =>
        \A b \in 0..TextLength :
            \A q \in {ByteIndexToPosition(Doc, b)} :
                /\ q.err = NoErr
                /\ PositionToByteIndex(Doc, q.val).err = NoErr
                /\ PositionToByteIndex(Doc, q.val).val = b

(* C9, amended: ByteIndexToPosition(b), 0 <= b <= TextLength, succeeds     *)
(* unless a codepoint of b's line that starts before b decodes to U+FFFD   *)
(* (then it is a rune error); when it succeeds, PositionToByteIndex of the *)
(* returned position succeeds and returns the first codepoint boundary of  *)
(* the line at or after b, which is b itself when b is a boundary.         *)
C9_OffsetRoundTripToBoundary ==
    \A b \in 0..TextLength :
        \A q \in {ByteIndexToPosition(Doc, b)} :
            /\ q.err = NoErr <=> RefDecodableBefore(Text, b)
            /\ q.err # NoErr => q.err = ErrRune
            /\ q.err = NoErr =>
                   \A i \in {PositionToByteIndex(Doc, q.val)} :
                       /\ i.err = NoErr
                       /\ i.val = RefNextBoundary(Text, b)
                       /\ b \in RefBoundaries(Text, RefLineOf(Text, b)) => i.val = b

\* The text holds a multi-byte codepoint on a line after the first, so that
\* some offset lies inside a codepoint, and a query has filled the cache.
C9_Witness ==
    /\ ret.op = "ByteIndexToPosition"
    /\ ret.err = NoErr
    /\ lastLineOffset.column > 0
    /\ \E b \in 0..TextLength :
           /\ RefLineOf(Text, b) > 0
           /\ b \notin RefBoundaries(Text, RefLineOf(Text, b))
           /\ ByteIndexToPosition(Doc, b).err = NoErr

(* C10, as stated: PositionToByteIndex(line, character) succeeds exactly   *)
(* when line < len(Lines) and character <= number of codepoints of the     *)
(* line; on success it returns Lines[line] plus the byte length of the     *)
(* first `character` codepoints, between the line's start and its upper    *)
(* bound.  Stated for well-formed UTF-8 texts; the code breaks it on the   *)
(* codepoint U+FFFD.                                                       *)
C10_PositionToByteIndexExact ==
    RefValidUTF8(Text) =>
        \A p \in InputPositions :
            \A i \in {PositionToByteIndex(Doc, p)} :
                /\ i.err = NoErr <=>
                       /\ p.line < Len(Lines)
                       /\ p.character <= RefRuneCount(RefLine(Text, p.line))
                /\ i.err = NoErr =>
                       /\ i.val = RefByteOffset(Text, p)
                       /\ i.val >= Lines[p.line + 1]
                       /\ i.val <= RefLineEnd(Text, Lines[p.line + 1])

-----------------------------------------------------------------------------
\* Number of codepoints of b's line that start before b.
RefCodepointsBefore(text, b) ==
    Cardinality({o \in RefBoundaries(text, RefLineOf(text, b)) : o < b})

\* The call rebuilt Lines: construction, SetText, or a Change that got past
\* the conversion of its range.
RebuiltLines ==
    \/ ret.op \in {"NewTextDocument", "SetTextCtx"}
    \/ ret.op = "ChangeCtx" /\ ret.err \in {NoErr} \cup ParseErrors

CachedOps == {"LineByteIndexToPosition", "PointToPosition", "ByteIndexToPosition"}

(* C11, as stated: PositionToByteIndex on an existing line with a         *)
(* character count larger than the number of codepoints of the line fails *)
(* with the character-out-of-range error, on every line, an empty last    *)
(* line included; the rune error is kept for bytes that are not valid     *)
(* UTF-8.  Stated for texts all of whose codepoints decode; the code      *)
(* breaks it at the end of the text, where it reports a rune error.       *)
C11_CharacterOutOfRange ==
    RefAllDecodable(Text) =>
        \A p \in InputPositions :
            (p.line < Len(Lines) /\ p.character > RefRuneCount(RefLine(Text, p.line)))
                => PositionToByteIndex(Doc, p).err = ErrCharacter

(* C12: for a Text that ends in a line terminator, PositionToByteIndex of  *)
(* (number of terminators, 0) succeeds and returns TextLength, and         *)
(* ByteIndexToPosition(TextLength) returns that position.                  *)
C12_OnePastLastLine ==
    (Text # <<>> /\ Text[Len(Text)] = NL) =>
        \A n \in {Cardinality(RefLineStarts(Text))} :
            /\ PositionToByteIndex(Doc, Position(n, 0)) = [err |-> NoErr, val |-> TextLength]
            /\ ByteIndexToPosition(Doc, TextLength).err = NoErr
            /\ ByteIndexToPosition(Doc, TextLength).val = Position(n, 0)
            /\ n = Len(Lines) - 1

\* ByteIndexToPosition has just answered for the end of a text that ends in a
\* terminator: the cache sits on the final empty line.
C12_Witness ==
    /\ ret.op = "ByteIndexToPosition"
    /\ ret.err = NoErr
    /\ Len(Text) > 1
    /\ Text[Len(Text)] = NL
    /\ lastLineOffset = [line |-> Len(Lines) - 1, offset |-> TextLength, column |-> 0]

(* C13, as stated: ByteIndexToPosition(b) fails exactly when               *)
(* b > TextLength; otherwise it returns the owning line of b and the       *)
(* number of codepoints of that line that start before b, and              *)
(* ByteIndexToPoint(b) returns the same line with column b - Lines[line].  *)
(* Stated for well-formed UTF-8 texts; the code breaks it after a U+FFFD.  *)
C13_ByteIndexToPositionExact ==
    RefValidUTF8(Text) =>
        \A b \in InputIndexes \cup {MaxUInt} :
            \A q \in {ByteIndexToPosition(Doc, b)}, t \in {ByteIndexToPoint(Doc, b)} :
                /\ q.err # NoErr <=> UGt(b, TextLength)
                /\ t.err # NoErr <=> UGt(b, TextLength)
                /\ q.err = NoErr =>
                       q.val = Position(RefLineOf(Text, b), RefCodepointsBefore(Text, b))
                /\ t.err = NoErr =>
                       t.val = Point(RefLineOf(Text, b),
                                     b - RefLineStart(Text, RefLineOf(Text, b)))

(* C14, as stated: LineByteIndexToPosition(line, index) returns an error   *)
(* for every line >= len(Lines) and for every index such that              *)
(* Lines[line] + index exceeds the upper bound of the line, for all 32-bit *)
(* unsigned values of index.  An index below zero here stands for a UInt   *)
(* of 2^31 or more, past every line of these texts.  The code breaks it:   *)
(* Lines[line] + index wraps around.                                       *)
C14_LineByteIndexChecked ==
    \A l \in InputLines :
        \A i \in InputLineIndexes(l) :
            (\/ l >= Len(Lines)
             \/ i < 0
             \/ Lines[l + 1] + i > RefLineEnd(Text, Lines[l + 1]))
                => LineByteIndexToPosition(Doc, l, i).err # NoErr

(* C15: the position cache never changes a result: in every state reached  *)
(* by conversions, SetText and Change, each of LineByteIndexToPosition,     *)
(* PointToPosition and ByteIndexToPosition returns the value or error of    *)
(* the same call made with the cache empty; and the cache is empty after    *)
(* every rebuild of Lines.                                                  *)
C15_CacheTransparent ==
    /\ \A l \in InputLines :
           \A i \in InputLineIndexes(l) :
               \A r \in {LineByteIndexToPosition(Doc, l, i)},
                  f \in {LineByteIndexToPosition([Doc EXCEPT !.lastLineOffset = NoOffset], l, i)} :
                   /\ r.err = f.err
                   /\ r.val = f.val
                   /\ PointToPosition(Doc, Point(l, i)).err = f.err
                   /\ PointToPosition(Doc, Point(l, i)).val = f.val
    /\ \A b \in InputIndexes :
           \A r \in {ByteIndexToPosition(Doc, b)},
              f \in {ByteIndexToPosition([Doc EXCEPT !.lastLineOffset = NoOffset], b)} :
               r.err = f.err /\ r.val = f.val
    /\ RebuiltLines => lastLineOffset = NoOffset

\* A query has left the cache behind a multi-byte codepoint on a line after
\* the first, and indexes before the cached offset can still be asked for.
C15_Witness ==
    /\ ret.op \in CachedOps
    /\ ret.err = NoErr
    /\ lastLineOffset.line > 0
    /\ lastLineOffset.column > 0
    /\ lastLineOffset.offset - Lines[lastLineOffset.line + 1] > lastLineOffset.column

-----------------------------------------------------------------------------
\* a lies before b.
PointLt(a, b) == a.row < b.row \/ (a.row = b.row /\ a.column < b.column)

\* Point p lies within node n or at one of its ends.
Touches(n, p) == ~PointLt(p, n.start) /\ ~PointLt(n.end, p)

\* The nodes of the tree the document holds.
TreeNodes == 1..Len(Tree.nodes)

Results == {Before, Inside, Overlapping, After}

First(S, none) == IF S = {} THEN none ELSE CHOOSE k \in S : \A j \in S : k <= j
Last(S, none) == IF S = {} THEN none ELSE CHOOSE k \in S : \A j \in S : j <= k

(* C16: CompareNodeWithRange yields one of -1, 0, 1, 2 for every node and  *)
(* every range; a zero-width range at the start point or at the end point  *)
(* of the node yields 1 (Overlapping), and a zero-width range never yields *)
(* 0 (Inside).                                                             *)
C16_CompareTotal ==
    \A i \in TreeNodes, rangeStart \in InputPoints, rangeEnd \in InputPoints :
        \A res \in {CompareNodeWithRange(Tree.nodes[i], rangeStart, rangeEnd)} :
            /\ res \in Results
            /\ rangeStart = rangeEnd =>
                   /\ res # Inside
                   /\ (Tree.nodes[i].start = rangeStart \/ Tree.nodes[i].end = rangeStart)
                          => res = Overlapping

\* CompareNodeWithRange has just answered Overlapping, in a tree that has a
\* zero-width node and a wider node that starts at a point of the text.
C16_Witness ==
    /\ ret.op = "CompareNodeWithRange"
    /\ ret.val = Overlapping
    /\ \E i \in TreeNodes : Tree.nodes[i].start = Tree.nodes[i].end
    /\ \E i \in TreeNodes, p \in InputPoints :
           Tree.nodes[i].start = p /\ Tree.nodes[i].end # p

(* C17, as stated: for a non-zero-width range and every node,              *)
(* CompareNodeWithRange returns -1 whenever the node ends at or before the *)
(* range start, 2 whenever the range ends at or before the node start, 0   *)
(* whenever the node's span lies within the range, and 1 in every          *)
(* remaining case.                                                         *)
C17_CompareByCase ==
    \A i \in TreeNodes, rangeStart \in InputPoints, rangeEnd \in InputPoints :
        \A n \in {Tree.nodes[i]},
           res \in {CompareNodeWithRange(Tree.nodes[i], rangeStart, rangeEnd)} :
            PointLt(rangeStart, rangeEnd) =>
                /\ PointLe(n.end, rangeStart) => res = Before
                /\ PointLe(rangeEnd, n.start) => res = After
                /\ (PointLe(rangeStart, n.start) /\ PointLe(n.end, rangeEnd)) => res = Inside
                /\ (/\ ~PointLe(n.end, rangeStart)
                    /\ ~PointLe(rangeEnd, n.start)
                    /\ ~(PointLe(rangeStart, n.start) /\ PointLe(n.end, rangeEnd)))
                       => res = Overlapping

(* C17, amended: the three cases are tried in the order Before, Inside,    *)
(* After.  For a node of non-zero width they exclude each other and the    *)
(* result is as stated; a zero-width node at or before the range start is  *)
(* Before (also at the start itself, where it lies within the range), a    *)
(* zero-width node after the start and up to the range end is Inside (also *)
(* at the end itself, where the range ends at its start), one after the    *)
(* range end is After.                                                     *)
C17_CompareByCaseInOrder ==
    \A i \in TreeNodes, rangeStart \in InputPoints, rangeEnd \in InputPoints :
        \A n \in {Tree.nodes[i]},
           res \in {CompareNodeWithRange(Tree.nodes[i], rangeStart, rangeEnd)} :
            PointLt(rangeStart, rangeEnd) =>
                IF n.start = n.end
                THEN res = IF PointLe(n.end, rangeStart) THEN Before
                           ELSE IF PointLe(n.end, rangeEnd) THEN Inside
                           ELSE After
                ELSE /\ PointLe(n.end, rangeStart) <=> res = Before
                     /\ PointLe(rangeEnd, n.start) <=> res = After
                     /\ (PointLe(rangeStart, n.start) /\ PointLe(n.end, rangeEnd))
                            <=> res = Inside
                     /\ res \in Results

\* CompareNodeWithRange has just answered Inside, and the tree has a zero-width
\* node at the end of a non-zero-width range of the text.
C17_Witness ==
    /\ ret.op = "CompareNodeWithRange"
    /\ ret.val = Inside
    /\ \E i \in TreeNodes, rangeStart \in InputPoints :
           /\ Tree.nodes[i].start = Tree.nodes[i].end
           /\ PointLt(rangeStart, Tree.nodes[i].end)
    /\ \E i \in TreeNodes : Tree.nodes[i].start # Tree.nodes[i].end

(* C18, as stated: GetNodesByRange with a range that equals the span of a  *)
(* leaf node returns exactly one node, that leaf.  Stated for trees        *)
(* without zero-width nodes; the code breaks it when an ancestor of the    *)
(* leaf has the same span.                                                 *)
C18_LeafRangeSelectsLeaf ==
    (\A i \in TreeNodes : Tree.nodes[i].start # Tree.nodes[i].end) =>
        \A i \in TreeNodes, range \in InputRanges :
            (/\ ChildCount(Tree.nodes, i) = 0
             /\ PositionToPoint(Doc, range.start) = [err |-> NoErr, val |-> Tree.nodes[i].start]
             /\ PositionToPoint(Doc, range.end) = [err |-> NoErr, val |-> Tree.nodes[i].end])
                => \A r \in {GetNodesByRange(Doc, Tree.nodes, range.start, range.end)} :
                       r.err = NoErr /\ r.val = <<i>>

\* The first childless node that point p touches, NoNode if there is none.
RefLeafAt(p) ==
    First({i \in TreeNodes : ChildCount(Tree.nodes, i) = 0 /\ Touches(Tree.nodes[i], p)},
          NoNode)

(* C19: GetNodeByPosition(p) is the head of the zero-width selection at p: *)
(* the first node in document order that is childless and whose span       *)
(* contains p or touches it at its start or end; nil and no error when     *)
(* there is no such node.                                                  *)
C19_NodeByPosition ==
    \A pos \in InputPositions :
        \A point \in {PositionToPoint(Doc, pos)},
           r \in {GetNodeByPosition(Doc, Tree.nodes, pos)},
           sel \in {GetNodesByRange(Doc, Tree.nodes, pos, pos)} :
            /\ r.err = point.err
            /\ sel.err = point.err
            /\ point.err = NoErr =>
                   /\ r.val = RefLeafAt(point.val)
                   /\ r.val = IF sel.val = <<>> THEN NoNode ELSE sel.val[1]
                   /\ \A k \in 1..Len(sel.val) :
                          /\ ChildCount(Tree.nodes, sel.val[k]) = 0
                          /\ Touches(Tree.nodes[sel.val[k]], point.val)

\* GetNodeByPosition has just returned nil without an error in a tree of three
\* nodes, where another position selects the last node.
C19_Witness ==
    /\ ret.op = "GetNodeByPosition"
    /\ ret.err = NoErr
    /\ ret.val = NoNode
    /\ Len(Tree.nodes) = 3
    /\ \E pos \in InputPositions : GetNodeByPosition(Doc, Tree.nodes, pos).val = 3

(* C20: GetClosestHighlightCaptureByPosition(p) returns as prev the        *)
(* nearest capture that ends before p, as target a capture that touches or *)
(* covers p (nil when there is none) and as next the nearest capture that  *)
(* starts after p, the first one classified After; a capture whose start   *)
(* or end is p is a target, never prev or next.                            *)
C20_ClosestCapture ==
    \A pos \in InputPositions :
        \A point \in {PositionToPoint(Doc, pos)},
           r \in {GetClosestHighlightCaptureByPosition(Doc, Tree.nodes,
                                                       HighlightCaptures, pos)} :
            /\ r.err = point.err
            /\ point.err = NoErr =>
                   \A caps \in {1..Len(HighlightCaptures)} :
                       \A before \in {{k \in caps :
                                PointLt(Tree.nodes[HighlightCaptures[k].node].end, point.val)}},
                          after \in {{k \in caps :
                                PointLt(point.val, Tree.nodes[HighlightCaptures[k].node].start)}},
                          at \in {{k \in caps :
                                Touches(Tree.nodes[HighlightCaptures[k].node], point.val)}} :
                           /\ r.prev = Last(before, NoCapture)
                           /\ r.target = Last(at, NoCapture)
                           /\ r.next = First(after, NoCapture)
                           /\ r.prev \notin at /\ r.next \notin at
                           /\ at # {} => r.target \in at

\* The call has just returned a capture before, one at and one after the
\* position.
C20_Witness ==
    /\ ret.op = "GetClosestHighlightCaptureByPosition"
    /\ ret.err = NoErr
    /\ ret.val[1] # NoCapture
    /\ ret.val[2] # NoCapture
    /\ ret.val[3] # NoCapture

-----------------------------------------------------------------------------
\* Position of a point (row, byte column) of text: the codepoints of its
\* line that lie before it.
RefPointPosition(text, point) ==
    Position(point.row, RefRuneCount(Slice(RefLine(text, point.row), 0, point.column)))

RECURSIVE RefAccumulate(_, _)
\* The absolute position that records 1..k of a token stream add up to.
RefAccumulate(tokens, k) ==
    LET line == tokens[5 * (k - 1) + 1]
        character == tokens[5 * (k - 1) + 2]
    IN  IF k = 1 THEN Position(line, character)
        ELSE LET before == RefAccumulate(tokens, k - 1)
             IN  Position(before.line + line,
                          IF line = 0 THEN before.character + character
                          ELSE character)

\* Codepoints a node spans on the line it starts on.
RefSpanOnStartLine(text, node) ==
    LET start == RefPointPosition(text, node.start)
    IN  IF node.end.row = node.start.row
        THEN RefPointPosition(text, node.end).character - start.character
        ELSE RefRuneCount(RefLine(text, node.start.row)) - start.character

(* C21: ConvertHighlightCaptures emits 5 values per stored capture, in      *)
(* stored order; the first record has the capture's absolute start line    *)
(* and character; a later record has the line difference to the previous   *)
(* capture's start and, when that is 0, the character difference, else the *)
(* absolute character; so the deltas add up to every absolute start.       *)
C21_TokenStream ==
    \A legend \in Legends :
        \A r \in {ConvertHighlightCaptures(Doc, Tree.nodes, HighlightCaptures, legend)} :
            LET abs(k) == RefPointPosition(Text, Tree.nodes[HighlightCaptures[k].node].start)
                field(k, n) == r.val[5 * (k - 1) + n]
            IN  /\ r.err = NoErr
                /\ Len(r.val) = 5 * Len(HighlightCaptures)
                /\ \A k \in 1..Len(HighlightCaptures) :
                      /\ k = 1 => field(k, 1) = abs(k).line /\ field(k, 2) = abs(k).character
                      /\ k > 1 =>
                            /\ field(k, 1) = abs(k).line - abs(k - 1).line
                            /\ field(k, 2) = IF abs(k).line = abs(k - 1).line
                                             THEN abs(k).character - abs(k - 1).character
                                             ELSE abs(k).character
                      /\ field(k, 4) = legend[HighlightCaptures[k].index + 1].Type
                      /\ field(k, 5) = legend[HighlightCaptures[k].index + 1].Modifiers
                      /\ RefAccumulate(r.val, k) = abs(k)

\* A stream of three records: the second on the line of the first at a later
\* character, the third on a later line.
C21_Witness ==
    /\ ret.op = "ConvertHighlightCaptures"
    /\ ret.err = NoErr
    /\ Len(ret.val) = 15
    /\ ret.val[6] = 0 /\ ret.val[7] > 0
    /\ ret.val[11] > 0

(* C22: the length of every record of ConvertHighlightCaptures is the      *)
(* number of codepoints the captured node spans on its start line, also    *)
(* for a node that ends on a later line; it is never a wrapped unsigned    *)
(* difference.  Stated as in the claim; the code breaks it (the length is  *)
(* end.Character - start.Character whatever the lines).                    *)
C22_LengthOnStartLine ==
    \A legend \in Legends :
        \A r \in {ConvertHighlightCaptures(Doc, Tree.nodes, HighlightCaptures, legend)} :
            r.err = NoErr =>
                \A k \in 1..Len(HighlightCaptures) :
                    r.val[5 * (k - 1) + 3] =
                        RefSpanOnStartLine(Text, Tree.nodes[HighlightCaptures[k].node])

-----------------------------------------------------------------------------
\* pos names a line of text and a codepoint boundary of that line.
RefValidPosition(text, pos) ==
    /\ pos.line <= Cardinality(RefLineStarts(text))
    /\ pos.character <= RefRuneCount(RefLine(text, pos.line))

\* The bytes of line `line` of text around byte offset b that hold no space:
\* from the last space before b, or the line start, to the first space at or
\* after b, or the line end.
RefWord(text, line, b) ==
    LET from == RefLineStart(text, line)
        to == RefLineEnd(text, from)
        left == {o \in from..b : o = from \/ text[o] = Space}
        right == {o \in b..to : o = to \/ text[o + 1] = Space}
    IN  Slice(text,
              CHOOSE o \in left : \A v \in left : v <= o,
              CHOOSE o \in right : \A v \in right : o <= v)

(* C23: for a valid position p, GetNonSpaceTextAroundPosition(p) is the    *)
(* longest run of bytes of p's line around p's byte offset that holds no   *)
(* space: it ends at a space or at the bounds of the line, holds no line   *)
(* terminator and no byte of another line, is the word on the left when p  *)
(* is just before a space and the word on the right when p is just after   *)
(* one; for an invalid position it returns an error.  Stated as in the     *)
(* claim, for well-formed UTF-8; the code breaks it (a U+FFFD in the word   *)
(* is taken for a decoding failure).                                       *)
C23_WordAroundPosition ==
    RefValidUTF8(Text) =>
        \A pos \in InputPositions :
            \A r \in {GetNonSpaceTextAroundPosition(Doc, pos)} :
                IF RefValidPosition(Text, pos)
                THEN /\ r.err = NoErr
                     /\ r.val = RefWord(Text, pos.line, RefByteOffset(Text, pos))
                ELSE r.err # NoErr

-----------------------------------------------------------------------------
\* How the walk classifies node i for the range of two points.
RefClass(i, startPoint, endPoint) ==
    CompareNodeWithRange(Tree.nodes[i], startPoint, endPoint)

(* C24: in the walk of GetNodesByRange the first node classified After     *)
(* ends the walk: no node at any depth is compared or recorded after it.   *)
(* Stated as in the claim, for trees without zero-width nodes and ranges   *)
(* that start before they end; the code breaks it (the return on After     *)
(* leaves only the innermost VisitNode, its caller goes on with the next   *)
(* sibling).                                                               *)
C24_AfterEndsWalk ==
    (\A i \in 1..Len(Tree.nodes) : Tree.nodes[i].start # Tree.nodes[i].end) =>
        \A range \in InputRanges :
            \A r \in {GetNodesByRange(Doc, Tree.nodes, range.start, range.end)} :
                LET startPoint == PositionToPoint(Doc, range.start).val
                    endPoint == PositionToPoint(Doc, range.end).val
                IN  (r.err = NoErr /\ PointLe(startPoint, endPoint)
                                   /\ startPoint # endPoint) =>
                        \A k \in 1..Len(r.compared) :
                            RefClass(r.compared[k], startPoint, endPoint) = After
                                => k = Len(r.compared)

(* C25: GetNodesByRange returns nodes in document order; each is Inside,   *)
(* or Overlapping and childless; an Overlapping node with children is not  *)
(* returned; nothing below an Inside node is visited, so no returned node  *)
(* is above or below another; an Inside root is returned alone.            *)
C25_SelectedNodes ==
    \A range \in InputRanges :
        \A r \in {GetNodesByRange(Doc, Tree.nodes, range.start, range.end)} :
            LET class(i) == RefClass(i, PositionToPoint(Doc, range.start).val,
                                     PositionToPoint(Doc, range.end).val)
                selected == {r.val[k] : k \in 1..Len(r.val)}
            IN  r.err = NoErr =>
                    /\ \A k \in 1..(Len(r.val) - 1) : r.val[k] < r.val[k + 1]
                    /\ \A i \in selected :
                          \/ class(i) = Inside
                          \/ class(i) = Overlapping /\ ChildCount(Tree.nodes, i) = 0
                    /\ \A i \in 1..Len(Tree.nodes) :
                          class(i) = Overlapping /\ ChildCount(Tree.nodes, i) > 0
                              => i \notin selected
                    /\ \A k \in 1..Len(r.compared) :
                          \A a \in Ancestors(Tree.nodes, r.compared[k]) \ {r.compared[k]} :
                              class(a) # Inside
                    /\ \A i \in selected, j \in selected :
                          i # j => i \notin Ancestors(Tree.nodes, j)
                    /\ class(1) = Inside => r.val = <<1>>

\* Two nodes are returned, one of them with children, and the root is not
\* among them.
C25_Witness ==
    /\ ret.op = "GetNodesByRange"
    /\ ret.err = NoErr
    /\ Len(ret.val) = 2
    /\ ret.val[1] # 1
    /\ \E k \in 1..2 : ChildCount(Tree.nodes, ret.val[k]) > 0

-----------------------------------------------------------------------------
(* C26: the previous tree is closed exactly when a parse succeeded and its *)
(* result replaced it: no operation closes a tree when the parse failed,   *)
(* no tree is closed twice, and after every operation doc.Tree is not a    *)
(* closed tree.                                                            *)
C26_ClosedOnReplace ==
    [][/\ \A id \in DOMAIN closed : closed'[id] <= 1
       /\ Tree' # NilTree => closed'[Tree'.id] = 0
       /\ closed' # closed <=> (Tree # NilTree /\ Tree'.id # Tree.id)
       /\ closed' # closed =>
             /\ closed' = [closed EXCEPT ![Tree.id] = 1]
             /\ ret'.op \in ParseReachedOps
             /\ ret'.err = NoErr
             /\ parseCall'.called /\ parseCall'.oldTree = Tree.id
             /\ Tree'.id = nextTree
       /\ ret'.err \in ParseErrors => closed' = closed /\ Tree'.id = Tree.id]_vars

\* A parse has failed after an earlier one replaced and closed the first
\* tree: the second tree is still doc.Tree and is not closed.
C26_Witness ==
    /\ ret.err \in ParseErrors
    /\ Tree.id = 2
    /\ closed[1] = 1
    /\ closed[2] = 0

-----------------------------------------------------------------------------
\* The point (row, byte column) of byte offset b of text.
RefPointOfOffset(text, b) ==
    Point(RefLineOf(text, b), b - RefLineStart(text, RefLineOf(text, b)))

(* C27: when ChangeCtx edits an existing tree, the edit handed to          *)
(* Tree.Edit has StartIndex and OldEndIndex equal to the byte offsets of   *)
(* the range's positions in the old text, StartPoint and OldEndPoint equal *)
(* to (line, byte column within the line) of those positions, NewEndIndex  *)
(* = StartIndex + byte length of the replacement, NewEndPoint = (row, byte *)
(* column) of NewEndIndex in the new text, its row being the start row     *)
(* plus the terminators of the replacement; the parser is called after     *)
(* the edit, with the edited tree.                                         *)
C27_EditDescribesChange ==
    Tree # NilTree =>
        \A e \in InputEvents(DocUnits), outcome \in ParseOutcomes :
            (/\ RefValidPosition(Text, e.range.start)
             /\ RefValidPosition(Text, e.range.end)
             /\ Environment(Parser, outcome)) =>
                \A r \in {ChangeResult(e, outcome, FALSE)} :
                    LET start == RefByteOffset(Text, e.range.start)
                        end == RefByteOffset(Text, e.range.end)
                        newEnd == start + Len(e.text)
                    IN  /\ r.edit # <<>>
                        /\ r.edit.StartIndex = start
                        /\ r.edit.OldEndIndex = end
                        /\ r.edit.StartPoint =
                               Point(e.range.start.line,
                                     start - RefLineStart(Text, e.range.start.line))
                        /\ r.edit.OldEndPoint =
                               Point(e.range.end.line,
                                     end - RefLineStart(Text, e.range.end.line))
                        /\ r.edit.NewEndIndex = newEnd
                        /\ r.edit.NewEndPoint = RefPointOfOffset(r.Text, newEnd)
                        /\ r.edit.NewEndPoint.row =
                               e.range.start.line + Cardinality(RefLineStarts(e.text))
                        /\ Parser # NoParser =>
                               /\ r.parseCall.called
                               /\ r.parseCall.oldTree = Tree.id
                               /\ r.parseCall.oldChanged = (Tree.changed \/ ~IsNoopEdit(e))
                        /\ (Parser = NoParser \/ outcome # NoErr) =>
                               /\ r.Tree.id = Tree.id
                               /\ r.Tree.changed = (Tree.changed \/ ~IsNoopEdit(e))
                               /\ Tree.covers = Text => r.Tree.covers = r.Text

\* ChangeCtx has replaced the "é" of a tree's text by a terminator and the
\* parser has been handed the edited tree.
C27_Witness ==
    /\ ret.op = "ChangeCtx"
    /\ ret.err = NoErr
    /\ parseCall.oldTree # 0
    /\ parseCall.oldChanged
    /\ Text = <<NL>>
    /\ Tree.covers = Text

-----------------------------------------------------------------------------
(* C28: ChangeCtx with a range whose start lies after its end (start byte  *)
(* offset > end byte offset) returns an error and leaves Text, Lines and   *)
(* Tree as they are; the bytes between the two offsets never appear twice  *)
(* in the text.  Stated as in the claim; the code breaks it (the range is  *)
(* spliced as it comes).                                                   *)
C28_InvertedRangeRejected ==
    \A e \in InputEvents(ConvUnits) :
        \A c \in {ChangeRange(Doc, e.range)} :
            (c.err = NoErr /\ c.start > c.end) =>
                \A r \in {ChangeResult(e, NoErr, FALSE)} :
                    /\ r.err # NoErr
                    /\ r.Text = Text
                    /\ r.Lines = Lines
                    /\ r.Tree = Tree
                    /\ r.Text # Slice(Text, 0, c.start) \o e.text \o SliceFrom(Text, c.end)

-----------------------------------------------------------------------------
(* C29: on a document whose Tree is nil (no parser set yet, or the first   *)
(* parse failed) GetNodesByRange, GetNodeByPosition and                    *)
(* GetClosestNodeByPosition return an empty or nil result or an error;     *)
(* they never dereference the missing tree.  Stated as in the claim; the   *)
(* code breaks it (each of them calls RootNode() on the nil tree).         *)
C29_NilTreeQueries ==
    Tree = NilTree =>
        /\ \A range \in InputRanges :
              GetNodesByRange(Doc, NodesOf(Tree), range.start, range.end).err
                  # PanicNilTree
        /\ \A pos \in InputPositions :
              /\ GetNodeByPosition(Doc, NodesOf(Tree), pos).err # PanicNilTree
              /\ GetClosestNodeByPosition(Doc, NodesOf(Tree), pos).err # PanicNilTree

====
